---------------------------- MODULE Spec2Model ----------------------------
(***************************************************************************)
(* A model of json-path-craft: the page component Index (file upload,     *)
(* processFiles with its matcher, classifier, resolver and aggregation    *)
(* loop) and the ResultDisplay grid (row initialisation, row handlers,     *)
(* generateJSON).                                                          *)
(*                                                                         *)
(* JavaScript strings are sequences of one-character strings, so that      *)
(* toLowerCase, the regular expressions, split, includes, indexOf and the  *)
(* template literals are computed character by character.                  *)
(***************************************************************************)
EXTENDS Integers, Sequences, FiniteSets, TLC

VARIABLES
    apiFile,          \* Index: useState apiFile
    policyFile,       \* Index: useState policyFile
    generatedJson,    \* Index: useState generatedJson
    policyData,       \* Index: useState policyData
    isProcessing,     \* Index: useState isProcessing
    processingStats,  \* Index: useState processingStats (the counters)
    pc,               \* position of the processFiles activation
    run,              \* locals of the processFiles activation
    rows,             \* ResultDisplay: useState rows
    selectAll,        \* ResultDisplay: useState selectAll
    call,             \* function under evaluation and its arguments
    ret               \* its result

vars == <<apiFile, policyFile, generatedJson, policyData, isProcessing,
          processingStats, pc, run, rows, selectAll, call, ret>>

\* JavaScript null / undefined: a value no string is equal to.
null == <<"null">>

\* !x for a string-or-null value x.
Falsy(x) == x = null \/ x = <<>>

(***************************************************************************)
(* Characters and the String.prototype methods the code uses.              *)
(***************************************************************************)

UpperLetters == <<"A","B","C","D","E","F","G","H","I","J","K","L","M","N","O","P","Q","R","S","T","U","V","W","X","Y","Z">>

LowerLetters == <<"a","b","c","d","e","f","g","h","i","j","k","l","m","n","o","p","q","r","s","t","u","v","w","x","y","z">>

Digits == {"0","1","2","3","4","5","6","7","8","9"}

IndexIn(c, letters) == CHOOSE i \in 1..Len(letters) : letters[i] = c

IsUpper(c) == \E i \in 1..Len(UpperLetters) : UpperLetters[i] = c

IsLower(c) == \E i \in 1..Len(LowerLetters) : LowerLetters[i] = c

toLowerChar(c) == IF IsUpper(c) THEN LowerLetters[IndexIn(c, UpperLetters)] ELSE c

toUpperChar(c) == IF IsLower(c) THEN UpperLetters[IndexIn(c, LowerLetters)] ELSE c

RECURSIVE toLowerCase(_)
toLowerCase(s) ==
    IF s = <<>> THEN <<>> ELSE <<toLowerChar(Head(s))>> \o toLowerCase(Tail(s))

RECURSIVE toUpperCase(_)
toUpperCase(s) ==
    IF s = <<>> THEN <<>> ELSE <<toUpperChar(Head(s))>> \o toUpperCase(Tail(s))

\* s.slice(from) with from counted from 0.
DropFirst(s, n) == SubSeq(s, n + 1, Len(s))

startsWith(s, p) == Len(p) <= Len(s) /\ SubSeq(s, 1, Len(p)) = p

endsWith(s, p) == Len(p) <= Len(s) /\ SubSeq(s, Len(s) - Len(p) + 1, Len(s)) = p

\* s.includes(sub)
includes(s, sub) ==
    \E i \in 1..(Len(s) - Len(sub) + 1) : SubSeq(s, i, i + Len(sub) - 1) = sub

Max(a, b) == IF a >= b THEN a ELSE b

(***************************************************************************)
(* String literals of the source.                                          *)
(***************************************************************************)
kw_copy == <<"c","o","p","y">>

kw_delete == <<"d","e","l","e","t","e">>

kw_import == <<"i","m","p","o","r","t">>

kw_unpost == <<"u","n","p","o","s","t">>

kw_deallocate == <<"d","e","a","l","l","o","c","a","t","e">>

kw_save == <<"s","a","v","e">>

kw_update == <<"u","p","d","a","t","e">>

kw_load == <<"l","o","a","d">>

kw_check == <<"c","h","e","c","k">>

kw_is == <<"i","s">>

kw_get == <<"g","e","t">>

POST == <<"P","O","S","T">>

GET == <<"G","E","T">>

DELETE == <<"D","E","L","E","T","E">>

PUT == <<"P","U","T">>

create == <<"c","r","e","a","t","e">>

read == <<"r","e","a","d">>

edit == <<"e","d","i","t">>

(***************************************************************************)
(* determineAccessType (Index.tsx 144-205): the ordered rule cascade.      *)
(* keywordRules is rules 1-9 (152-196), methodFallback the mapping by HTTP *)
(* method alone (199-204); each yields null when it decides nothing.       *)
(***************************************************************************)
keywordRules_deleteFirst(method, http) ==
    LET postOrGet == http = POST \/ http = GET
    IN  IF includes(method, kw_delete) /\ (postOrGet \/ http = DELETE) THEN edit
        ELSE IF includes(method, kw_copy) /\ postOrGet THEN create
        ELSE IF includes(method, kw_import) /\ postOrGet THEN create
        ELSE IF (includes(method, kw_unpost) \/ includes(method, kw_deallocate))
                /\ postOrGet THEN create
        ELSE IF includes(method, kw_save) /\ postOrGet THEN create
        ELSE IF includes(method, kw_update) /\ postOrGet THEN edit
        ELSE IF (includes(method, kw_load) \/ includes(method, kw_check))
                /\ postOrGet THEN read
        ELSE IF includes(method, kw_is) /\ postOrGet THEN read
        ELSE IF includes(method, kw_get) /\ (http = GET \/ http = POST) THEN read
        ELSE null

keywordRules(method, http) ==
    LET postOrGet == http = POST \/ http = GET
    IN  IF includes(method, kw_copy) /\ postOrGet THEN create
        ELSE IF includes(method, kw_delete) /\ (postOrGet \/ http = DELETE) THEN edit
        ELSE IF includes(method, kw_import) /\ postOrGet THEN create
        ELSE IF (includes(method, kw_unpost) \/ includes(method, kw_deallocate))
                /\ postOrGet THEN create
        ELSE IF includes(method, kw_save) /\ postOrGet THEN create
        ELSE IF includes(method, kw_update) /\ postOrGet THEN edit
        ELSE IF (includes(method, kw_load) \/ includes(method, kw_check))
                /\ postOrGet THEN read
        ELSE IF includes(method, kw_is) /\ postOrGet THEN read
        ELSE IF includes(method, kw_get) /\ (http = GET \/ http = POST) THEN read
        ELSE null

methodFallback_putCreates(http) ==
    IF http = DELETE THEN edit
    ELSE IF http = PUT THEN create
    ELSE IF http = POST THEN create
    ELSE IF http = GET THEN read
    ELSE null

\* The mapping by HTTP method with a category of its own for DELETE.
methodFallback_deleteDeletes(http) ==
    IF http = DELETE THEN kw_delete
    ELSE IF http = PUT THEN edit
    ELSE IF http = POST THEN create
    ELSE IF http = GET THEN read
    ELSE null

methodFallback(http) ==
    IF http = DELETE THEN edit
    ELSE IF http = PUT THEN edit
    ELSE IF http = POST THEN create
    ELSE IF http = GET THEN read
    ELSE null

determineAccessType(javaMethodName, httpMethod) ==
    IF Falsy(javaMethodName) THEN null
    ELSE
    LET method == toLowerCase(javaMethodName)
        http == IF Falsy(httpMethod) THEN <<>> ELSE toUpperCase(httpMethod)
        byKeyword == keywordRules(method, http)
    IN  IF byKeyword # null THEN byKeyword ELSE methodFallback(http)

(***************************************************************************)
(* findBestPolicyMatchWithScore (Index.tsx 206-286): the regular           *)
(* expressions, character by character.                                    *)
(***************************************************************************)
SLASH == <<"/">>

re_ctrmApi == <<"c","t","r","m","-","a","p","i","/","a","p","i">>

re_api == <<"a","p","i">>

\* s.replace(/^\/?<word>\/?/, ""): an optional leading slash, the word, an
\* optional slash after it; unchanged when the word is not there.
stripLeadingWord(s, word) ==
    LET t == IF startsWith(s, SLASH) THEN Tail(s) ELSE s
    IN  IF startsWith(t, word)
        THEN LET r == DropFirst(t, Len(word))
             IN  IF startsWith(r, SLASH) THEN Tail(r) ELSE r
        ELSE s

\* The number of leading digits of s.
RECURSIVE digitRun(_)
digitRun(s) ==
    IF s # <<>> /\ Head(s) \in Digits THEN 1 + digitRun(Tail(s)) ELSE 0

\* The length of the match of /\/v\d+(\.\d+)?\// at the start of s, 0 if none.
versionMatchLen(s) ==
    IF ~(Len(s) >= 2 /\ s[1] = "/" /\ s[2] = "v") THEN 0
    ELSE
    LET d1 == digitRun(DropFirst(s, 2))
        p == 2 + d1                       \* characters consumed by /v\d+
        rest == DropFirst(s, p)
        d2 == IF startsWith(rest, <<".">>) THEN digitRun(Tail(rest)) ELSE 0
    IN  IF d1 = 0 THEN 0
        ELSE IF d2 > 0 /\ startsWith(DropFirst(rest, 1 + d2), SLASH) THEN p + 1 + d2 + 1
        ELSE IF startsWith(rest, SLASH) THEN p + 1
        ELSE 0

\* s.replace(/\/v\d+(\.\d+)?\//g, "/"): matches are found left to right and
\* the search resumes after the text a match consumed.
RECURSIVE stripVersions(_)
stripVersions(s) ==
    IF s = <<>> THEN <<>>
    ELSE LET m == versionMatchLen(s)
         IN  IF m > 0 THEN SLASH \o stripVersions(DropFirst(s, m))
             ELSE <<Head(s)>> \o stripVersions(Tail(s))

\* s.replace(/^\/|\/$/g, ""): one leading and one trailing slash.
stripEdgeSlashes(s) ==
    LET t == IF startsWith(s, SLASH) THEN Tail(s) ELSE s
    IN  IF t # <<>> /\ t[Len(t)] = "/" THEN SubSeq(t, 1, Len(t) - 1) ELSE t

\* s.split(/[<seps>]+/).filter(Boolean): the maximal runs of other characters.
RECURSIVE splitRuns(_, _, _)
splitRuns(s, seps, cur) ==
    LET done == IF cur = <<>> THEN <<>> ELSE <<cur>>
    IN  IF s = <<>> THEN done
        ELSE IF Head(s) \in seps THEN done \o splitRuns(Tail(s), seps, <<>>)
        ELSE splitRuns(Tail(s), seps, Append(cur, Head(s)))

pathSeparators == {"/", "-", ".", "_"}

keywordSeparators == {"_", "-", ".", " "}

\* Lines 210-214: apiClean.
apiCleanOf(apiPath) ==
    stripEdgeSlashes(stripVersions(
        stripLeadingWord(stripLeadingWord(toLowerCase(apiPath), re_ctrmApi), re_api)))

\* Line 247: pClean.
pCleanOf(policyPath) == stripEdgeSlashes(toLowerCase(policyPath))

\* Lines 224 and 248: the tokens of a cleaned path.
tokensOf(clean) == splitRuns(clean, pathSeparators, <<>>)

\* s.replace(/([a-z0-9])([A-Z])/g, "$1 $2")
RECURSIVE camelSplit(_)
camelSplit(s) ==
    IF Len(s) < 2 THEN s
    ELSE IF (IsLower(s[1]) \/ s[1] \in Digits) /\ IsUpper(s[2])
         THEN <<s[1], " ", s[2]>> \o camelSplit(DropFirst(s, 2))
         ELSE <<s[1]>> \o camelSplit(Tail(s))

\* Lines 217-221: methodKeywords. The name is lowercased first, then split.
methodKeywordsOf(javaMethodName) ==
    LET methodLower == toLowerCase(IF Falsy(javaMethodName) THEN <<>> ELSE javaMethodName)
    IN  splitRuns(camelSplit(methodLower), keywordSeparators, <<>>)

\* Lines 227-242: dp[j] after row i is the length of the common suffix of
\* a[0..i) and b[0..j); lcsLen is the largest value dp ever holds.
RECURSIVE commonSuffix(_, _, _, _)
commonSuffix(a, b, i, j) ==
    IF i = 0 \/ j = 0 THEN 0
    ELSE IF a[i] = b[j] THEN commonSuffix(a, b, i - 1, j - 1) + 1
    ELSE 0

lcsLen(a, b) ==
    LET all == {commonSuffix(a, b, i, j) : i \in 1..Len(a), j \in 1..Len(b)} \cup {0}
    IN  CHOOSE m \in all : \A x \in all : x <= m

OverlapWeight == 10

MethodBonus == 5

MinKeywordLength == 3

MethodBonusAllowance == 50

\* Line 256: the api tokens that are tokens of the policy path.
overlapOf(apiTokens, pTokens) ==
    Cardinality({i \in 1..Len(apiTokens) :
                    \E j \in 1..Len(pTokens) : pTokens[j] = apiTokens[i]})

\* Lines 259-264: the bonus for handler-name keywords found in the policy path.
methodMatchScoreOf(methodKeywords, pClean) ==
    MethodBonus * Cardinality({i \in 1..Len(methodKeywords) :
                    /\ Len(methodKeywords[i]) > MinKeywordLength
                    /\ includes(pClean, methodKeywords[i])})

\* Line 270: the raw score of one candidate.
candidateScore(apiClean, apiTokens, methodKeywords, pClean) ==
    overlapOf(apiTokens, tokensOf(pClean)) * OverlapWeight
        + lcsLen(apiClean, pClean)
        + methodMatchScoreOf(methodKeywords, pClean)

NoBest == [path |-> null, score |-> 0, tieBreak |-> 0]

\* A candidate replaces the best so far only with a higher score.
replacesBest_noTieBreak(best, score, tieBreak) ==
    IF best.path = null THEN TRUE ELSE score > best.score

\* Line 273: whether a candidate replaces the best so far.
replacesBest(best, score, tieBreak) ==
    \/ best.path = null
    \/ score > best.score
    \/ (score = best.score /\ tieBreak > best.tieBreak)

\* The loop without the return at an exact candidate: the candidate is scored
\* like any other.
RECURSIVE scanPolicyPaths_noShortCircuit(_, _, _, _, _, _)
scanPolicyPaths_noShortCircuit(apiClean, apiTokens, methodKeywords, policyPaths, i, best) ==
    IF i > Len(policyPaths) THEN [exact |-> FALSE, best |-> best]
    ELSE
    LET policyPath == policyPaths[i]
        pClean == pCleanOf(policyPath)
        score == candidateScore(apiClean, apiTokens, methodKeywords, pClean)
        tieBreak == Len(pClean)
    IN  scanPolicyPaths_noShortCircuit(apiClean, apiTokens, methodKeywords, policyPaths, i + 1,
            IF replacesBest(best, score, tieBreak)
            THEN [path |-> policyPath, score |-> score, tieBreak |-> tieBreak]
            ELSE best)

\* Lines 246-276: the loop over policyPaths from index i on. It returns at
\* the first exact candidate, else it ends with the best candidate.
RECURSIVE scanPolicyPaths(_, _, _, _, _, _)
scanPolicyPaths(apiClean, apiTokens, methodKeywords, policyPaths, i, best) ==
    IF i > Len(policyPaths) THEN [exact |-> FALSE, best |-> best]
    ELSE
    LET policyPath == policyPaths[i]
        pClean == pCleanOf(policyPath)
        score == candidateScore(apiClean, apiTokens, methodKeywords, pClean)
        tieBreak == Len(pClean)
    IN  IF pClean = apiClean
        THEN [exact |-> TRUE, best |-> [path |-> policyPath, score |-> 0, tieBreak |-> 0]]
        ELSE scanPolicyPaths(apiClean, apiTokens, methodKeywords, policyPaths, i + 1,
                 IF replacesBest(best, score, tieBreak)
                 THEN [path |-> policyPath, score |-> score, tieBreak |-> tieBreak]
                 ELSE best)

\* A JavaScript number that is a ratio. literal: written as such in the source
\* (0.0, 1.0); otherwise it is the result of 1 - (1 - num/den) in IEEE double
\* arithmetic.
Literal(n) == [num |-> n, den |-> 1, literal |-> TRUE]

\* Line 280.
maxPossibleScoreOf(apiTokens, apiClean) ==
    Len(apiTokens) * OverlapWeight + Len(apiClean) + MethodBonusAllowance

\* Lines 281-282: normalizedScore = 1 - raw/max, and the score returned is
\* 1 - normalizedScore.
returnedScore(raw, maxPossibleScore) ==
    [num |-> raw, den |-> maxPossibleScore, literal |-> FALSE]

findBestPolicyMatchWithScore(apiPath, javaMethodName, policyPaths) ==
    IF Falsy(apiPath) \/ Len(policyPaths) = 0 THEN [path |-> null, score |-> Literal(1)]
    ELSE
    LET apiClean == apiCleanOf(apiPath)
        apiTokens == tokensOf(apiClean)
        found == scanPolicyPaths(apiClean, apiTokens, methodKeywordsOf(javaMethodName),
                                 policyPaths, 1, NoBest)
    IN  IF found.exact THEN [path |-> found.best.path, score |-> Literal(0)]
        ELSE [path |-> found.best.path,
              score |-> returnedScore(found.best.score,
                                      maxPossibleScoreOf(apiTokens, apiClean))]

\* score < 0.2 (lines 291, 327, 332). A literal compares as the ratio it is.
\* For 1 - (1 - num/den) the double is below 0.2 exactly when 5 * num <= den:
\* at num/den = 1/5 the two subtractions round to 0.19999999999999996.
scoreBelowCutoff(score) ==
    IF score.literal THEN 5 * score.num < score.den
    ELSE 5 * score.num <= score.den

(***************************************************************************)
(* The resolver inside the aggregation loop (Index.tsx 341-382).           *)
(*                                                                         *)
(* A section of a policy entry is absent when the entry has no such key,   *)
(* else it holds its members in declaration order, each a grant key and    *)
(* whether its value is truthy (the code tests sec[key]; a value such as   *)
(* "", false, 0 or null is falsy). Grant keys are not integer-like, so     *)
(* Object.keys lists them in declaration order.                            *)
(***************************************************************************)
sec_GridAccess == <<"G","r","i","d"," ","A","c","c","e","s","s">>

sec_Action == <<"A","c","t","i","o","n">>

sec_Toolbar == <<"T","o","o","l","b","a","r">>

sec_widgets == <<"w","i","d","g","e","t","s">>

k_createBulk == <<"c","r","e","a","t","e","B","u","l","k">>

k_saveAndActualizeCost == <<"s","a","v","e","A","n","d","A","c","t","u","a","l","i","z","e","C","o","s","t">>

k_add == <<"a","d","d">>

k_makeDefault == <<"m","a","k","e","D","e","f","a","u","l","t">>

k_remove == <<"r","e","m","o","v","e">>

k_copyBL == <<"c","o","p","y","B","L">>

k_copyQualityDetails == <<"c","o","p","y","Q","u","a","l","i","t","y","D","e","t","a","i","l","s">>

k_copyShippingDetails == <<"c","o","p","y","S","h","i","p","p","i","n","g","D","e","t","a","i","l","s">>

k_view == <<"v","i","e","w">>

k_approve == <<"a","p","p","r","o","v","e">>

DOT == <<".">>

NoSection == [present |-> FALSE, members |-> <<>>]

Section(members) == [present |-> TRUE, members |-> members]

\* policyEntry[sectionName]
sectionOf(policyEntry, sectionName) ==
    IF sectionName = sec_GridAccess THEN policyEntry.gridAccess
    ELSE IF sectionName = sec_Action THEN policyEntry.action
    ELSE IF sectionName = sec_Toolbar THEN policyEntry.toolbar
    ELSE IF sectionName = sec_widgets THEN policyEntry.widgets
    ELSE NoSection

\* sec[key] is truthy.
truthyAt(sec, key) ==
    \E i \in 1..Len(sec.members) : sec.members[i].key = key /\ sec.members[i].truthy

\* Lines 351-357.
synonyms(accessType) ==
    IF accessType = create
    THEN <<create, kw_save, k_createBulk, k_saveAndActualizeCost, kw_import, k_add, kw_copy>>
    ELSE IF accessType = edit
    THEN <<edit, kw_update, k_makeDefault, kw_delete, k_remove>>
    ELSE IF accessType = kw_delete
    THEN <<kw_delete, k_remove>>
    ELSE IF accessType = kw_copy
    THEN <<kw_copy, k_copyBL, k_copyQualityDetails, k_copyShippingDetails>>
    ELSE IF accessType = read
    THEN <<read, kw_get, k_view, kw_load, kw_check, kw_is>>
    ELSE <<>>

\* `${bestPolicyMatch}.${sectionName}.${key}`
rolePathString(bestPolicyMatch, sectionName, key) ==
    bestPolicyMatch \o DOT \o sectionName \o DOT \o key

\* A section lookup that names the access type whether or not the section
\* has it.
trySection_unchecked(policyEntry, bestPolicyMatch, accessType, sectionName) ==
    IF sectionOf(policyEntry, sectionName).present
    THEN rolePathString(bestPolicyMatch, sectionName, accessType)
    ELSE null

\* Lines 359-373.
trySection(policyEntry, bestPolicyMatch, accessType, sectionName) ==
    LET sec == sectionOf(policyEntry, sectionName)
        candidates == synonyms(accessType)
        hits == {i \in 1..Len(candidates) : truthyAt(sec, candidates[i])}
    IN  IF ~sec.present THEN null
        ELSE IF truthyAt(sec, accessType)
        THEN rolePathString(bestPolicyMatch, sectionName, accessType)
        ELSE IF hits # {}
        THEN rolePathString(bestPolicyMatch, sectionName,
                            candidates[CHOOSE i \in hits : \A j \in hits : i <= j])
        ELSE IF Len(sec.members) > 0
        THEN rolePathString(bestPolicyMatch, sectionName, sec.members[1].key)
        ELSE null

\* The rolePath of a record whose missing access type counts as read.
rolePathOf_defaultRead(policyEntry, bestPolicyMatch, accessType) ==
    LET used == IF Falsy(accessType) THEN read ELSE accessType
    IN  IF Falsy(bestPolicyMatch) THEN <<>>
        ELSE IF policyEntry.gridAccess.present /\ truthyAt(policyEntry.gridAccess, used)
        THEN <<rolePathString(bestPolicyMatch, sec_GridAccess, used)>>
        ELSE <<>>

\* Lines 341-382: the rolePath of the record.
rolePathOf(policyEntry, bestPolicyMatch, accessType) ==
    IF Falsy(bestPolicyMatch) \/ Falsy(accessType) THEN <<>>
    ELSE IF policyEntry.gridAccess.present /\ truthyAt(policyEntry.gridAccess, accessType)
    THEN <<rolePathString(bestPolicyMatch, sec_GridAccess, accessType)>>
    ELSE
    LET fromAction == trySection(policyEntry, bestPolicyMatch, accessType, sec_Action)
        fromToolbar == trySection(policyEntry, bestPolicyMatch, accessType, sec_Toolbar)
        fromWidgets == trySection(policyEntry, bestPolicyMatch, accessType, sec_widgets)
        chosen == IF fromAction # null THEN fromAction
                  ELSE IF fromToolbar # null THEN fromToolbar
                  ELSE fromWidgets
    IN  IF chosen # null THEN <<chosen>> ELSE <<>>

(***************************************************************************)
(* The aggregation loop of processFiles (Index.tsx 299-413).               *)
(*                                                                         *)
(* An observation is a record of the fields context_path, api, method and  *)
(* java_method_name, each a string or null when the field is missing. The  *)
(* parsed policy document is the sequence of its keys with their entries,  *)
(* in Object.keys order. resultsMap is the Map as the sequence of its      *)
(* values in insertion order. An element of the array that is null or      *)
(* undefined has isObject FALSE; any other element reads as an object      *)
(* whose missing fields are null.                                          *)
(***************************************************************************)
UNKNOWN == <<"U","N","K","N","O","W","N">>

\* x || ""
orEmpty(x) == IF Falsy(x) THEN <<>> ELSE x

\* s.replace(/\/{2,}/g, "/")
RECURSIVE collapseSlashes(_)
collapseSlashes(s) ==
    IF Len(s) < 2 THEN s
    ELSE IF s[1] = "/" /\ s[2] = "/" THEN collapseSlashes(Tail(s))
    ELSE <<s[1]>> \o collapseSlashes(Tail(s))

\* Lines 309-314: fullPath.
fullPathOf(apiEntry) ==
    LET collapsed == collapseSlashes(orEmpty(apiEntry.context_path) \o orEmpty(apiEntry.api))
        led == IF startsWith(collapsed, SLASH) THEN collapsed ELSE SLASH \o collapsed
    IN  IF Len(led) > 1 /\ endsWith(led, SLASH) THEN SubSeq(led, 1, Len(led) - 1) ELSE led

\* Object.keys(parsedPolicyData)
keysOf(parsedPolicyData) == [i \in 1..Len(parsedPolicyData) |-> parsedPolicyData[i].key]

\* parsedPolicyData[key], for a key of the document.
entryOf(parsedPolicyData, key) ==
    parsedPolicyData[CHOOSE i \in 1..Len(parsedPolicyData) : parsedPolicyData[i].key = key].entry

\* resultsMap.has(fullPath)
hasPath_never(resultsMap, fullPath) == FALSE

hasPath(resultsMap, fullPath) == \E i \in 1..Len(resultsMap) : resultsMap[i].path = fullPath

\* Line 327: the policy path the loop uses.
bestPolicyMatchOf_ungated(matchResult) == matchResult.path

bestPolicyMatchOf(matchResult) ==
    IF scoreBelowCutoff(matchResult.score) THEN matchResult.path ELSE null

NoIteration ==
    [fullPath |-> <<>>, skipped |-> TRUE, accessType |-> null,
     matchResult |-> [path |-> null, score |-> Literal(1)],
     bestPolicyMatch |-> null, rolePath |-> <<>>]

\* Lines 299-305: the locals the loop starts with.
loopLocals(apiMonitor, parsedPolicyData) ==
    [apiMonitor |-> apiMonitor, parsedPolicyData |-> parsedPolicyData, i |-> 1,
     resultsMap |-> <<>>, processedCount |-> 0, matchedCount |-> 0,
     unmatchedCount |-> 0, highConfidenceCount |-> 0, lowConfidenceCount |-> 0,
     last |-> NoIteration]

\* Lines 307-408: one iteration of the loop, on the observation apiEntry.
\* last holds the iteration's own locals.
iteration(r, apiEntry) ==
    LET fullPath == fullPathOf(apiEntry)
        accessType == determineAccessType(apiEntry.java_method_name, apiEntry.method)
        matchResult == findBestPolicyMatchWithScore(fullPath, apiEntry.java_method_name,
                                                    keysOf(r.parsedPolicyData))
        bestPolicyMatch == bestPolicyMatchOf(matchResult)
        matched == ~Falsy(bestPolicyMatch)
        high == matched /\ scoreBelowCutoff(matchResult.score)
        rolePath == IF matched
                    THEN rolePathOf(entryOf(r.parsedPolicyData, bestPolicyMatch),
                                    bestPolicyMatch, accessType)
                    ELSE <<>>
    IN  IF hasPath(r.resultsMap, fullPath)
        THEN [r EXCEPT !.i = @ + 1,
                       !.last = [NoIteration EXCEPT !.fullPath = fullPath]]
        ELSE [r EXCEPT
                !.i = @ + 1,
                !.matchedCount = IF matched THEN @ + 1 ELSE @,
                !.highConfidenceCount = IF high THEN @ + 1 ELSE @,
                !.lowConfidenceCount = IF matched /\ ~high THEN @ + 1 ELSE @,
                !.unmatchedCount = IF matched THEN @ ELSE @ + 1,
                !.resultsMap = Append(@,
                    [path |-> fullPath, rolePath |-> rolePath,
                     methodType |-> IF Falsy(apiEntry.method) THEN UNKNOWN ELSE apiEntry.method,
                     javaMethodName |-> orEmpty(apiEntry.java_method_name)]),
                !.processedCount = @ + 1,
                !.last = [fullPath |-> fullPath, skipped |-> FALSE,
                          accessType |-> accessType, matchResult |-> matchResult,
                          bestPolicyMatch |-> bestPolicyMatch, rolePath |-> rolePath]]

\* The counters when processedEntries counts the skipped observations too.
statsOf_countSkipped(r) ==
    [totalEntries |-> Len(r.apiMonitor), processedEntries |-> r.i - 1,
     matchedRoutes |-> r.matchedCount, unmatchedRoutes |-> r.unmatchedCount,
     highConfidence |-> r.highConfidenceCount, lowConfidence |-> r.lowConfidenceCount]

\* Lines 398-407: the counters the iteration publishes.
statsOf(r) ==
    [totalEntries |-> Len(r.apiMonitor), processedEntries |-> r.processedCount,
     matchedRoutes |-> r.matchedCount, unmatchedRoutes |-> r.unmatchedCount,
     highConfidence |-> r.highConfidenceCount, lowConfidence |-> r.lowConfidenceCount]

YieldEvery == 50

\* Lines 410-412: the iteration that made r ends with an await.
yieldsAfter(r) == ~r.last.skipped /\ r.processedCount % YieldEvery = 0

\* The locals the loop resumes with after the timer of a yield: the map
\* would be empty again.
afterYield_emptyMap(r) == [r EXCEPT !.resultsMap = <<>>]

\* Lines 410-412: the locals the loop resumes with after the timer of a
\* yield are those it was suspended with.
afterYield(r) == r

\* The locals at the end of the loop that starts from r.
RECURSIVE loopFrom(_)
loopFrom(r) ==
    IF r.i > Len(r.apiMonitor) THEN r ELSE loopFrom(iteration(r, r.apiMonitor[r.i]))

(***************************************************************************)
(* ResultDisplay (ResultDisplay.tsx 38-592): the editable rows made from   *)
(* the generated records and the JSON exported from them. The reasoning    *)
(* text of a row is display only and is left out.                          *)
(***************************************************************************)
dotGridAccess == DOT \o sec_GridAccess

\* s.indexOf(sub)
indexOf(s, sub) ==
    LET at == {i \in 1..(Len(s) - Len(sub) + 1) : SubSeq(s, i, i + Len(sub) - 1) = sub}
    IN  IF at = {} THEN -1 ELSE (CHOOSE i \in at : \A j \in at : i <= j) - 1

\* s.lastIndexOf(sub)
lastIndexOf(s, sub) ==
    LET at == {i \in 1..(Len(s) - Len(sub) + 1) : SubSeq(s, i, i + Len(sub) - 1) = sub}
    IN  IF at = {} THEN -1 ELSE (CHOOSE i \in at : \A j \in at : i >= j) - 1

\* s.slice(0, end)
sliceTo(s, end) ==
    IF end >= 0 THEN SubSeq(s, 1, IF end <= Len(s) THEN end ELSE Len(s))
    ELSE SubSeq(s, 1, Max(Len(s) + end, 0))

\* /\.(w1|w2|...)$/i.test(rp), for lowercase words.
testDotSuffix(rp, words) == \E w \in words : endsWith(toLowerCase(rp), DOT \o w)

\* item.rolePath.some(rp => /\.(w1|w2|...)$/i.test(rp))
someDotSuffix(rolePath, words) ==
    \E i \in 1..Len(rolePath) : testDotSuffix(rolePath[i], words)

\* Line 61: Object.keys(policyData || {})
policyRoutesOf(policy) == IF policy.set THEN keysOf(policy.doc) ELSE <<>>

\* Lines 80-120: the routes findBestRouteMatch can return. The ranking is
\* Fuse.js's, a library outside this repository: any policy route may come
\* first with a score below 0.2, or none.
findBestRouteMatch(apiPath, policyRoutes) ==
    IF Falsy(apiPath) \/ Len(policyRoutes) = 0 THEN {<<>>}
    ELSE {<<>>} \cup {policyRoutes[i] : i \in 1..Len(policyRoutes)}

\* Lines 213-216.
inferRoleBaseFromRoute(route) ==
    IF Falsy(route) THEN null ELSE route \o dotGridAccess

\* Lines 221-292: the row of one generated record; fuzzyRoute is what
\* findBestRouteMatch returns for the record's path.
rowOf(item, fuzzyRoute) ==
    LET hasRolePath == Len(item.rolePath) > 0
        first == item.rolePath[1]
        gridAccessIndex == IF hasRolePath THEN indexOf(first, dotGridAccess) ELSE -1
        derivedRoute == IF gridAccessIndex # -1 THEN sliceTo(first, gridAccessIndex) ELSE <<>>
        derivedBase == IF gridAccessIndex # -1 THEN sliceTo(first, lastIndexOf(first, DOT))
                       ELSE null
        create_ == someDotSuffix(item.rolePath, {create, kw_save, kw_import, k_add})
        read_ == ~create_ /\ someDotSuffix(item.rolePath,
                                {read, kw_get, k_view, kw_load, kw_check, kw_is})
        edit_ == ~create_ /\ ~read_ /\ someDotSuffix(item.rolePath, {edit, kw_update})
        copy_ == ~create_ /\ ~read_ /\ ~edit_ /\ someDotSuffix(item.rolePath, {kw_copy})
        delete_ == ~create_ /\ ~read_ /\ ~edit_ /\ ~copy_
                      /\ someDotSuffix(item.rolePath, {kw_delete})
        none == ~create_ /\ ~read_ /\ ~edit_ /\ ~copy_ /\ ~delete_
    IN  [path |-> item.path,
         methodType |-> IF Falsy(item.methodType) THEN UNKNOWN ELSE item.methodType,
         javaMethodName |-> orEmpty(item.javaMethodName),
         route |-> IF Falsy(derivedRoute) THEN fuzzyRoute ELSE derivedRoute,
         roleBase |-> IF Falsy(derivedRoute) THEN inferRoleBaseFromRoute(fuzzyRoute)
                      ELSE derivedBase,
         baseInferred |-> ~hasRolePath,
         create |-> create_,
         read |-> IF none THEN TRUE ELSE read_,
         edit |-> edit_,
         selected |-> TRUE]

\* Lines 295-299: the stable sort that puts the rows without a route first.
sortEmptyRoutesFirst(processedRows) ==
    SelectSeq(processedRows, LAMBDA r : Falsy(r.route))
        \o SelectSeq(processedRows, LAMBDA r : ~Falsy(r.route))

\* Lines 320-330: the records of the exported JSON.
exportedRolePath(r) ==
    IF Falsy(r.roleBase) THEN <<>>
    ELSE (IF r.create THEN <<r.roleBase \o DOT \o create>> ELSE <<>>)
            \o (IF r.read THEN <<r.roleBase \o DOT \o read>> ELSE <<>>)
            \o (IF r.edit THEN <<r.roleBase \o DOT \o edit>> ELSE <<>>)

generateJSON(rs) ==
    LET selected == SelectSeq(rs, LAMBDA r : r.selected)
        working == IF Len(selected) > 0 THEN selected ELSE rs
    IN  [i \in 1..Len(working) |->
            [path |-> working[i].path, rolePath |-> exportedRolePath(working[i])]]

\* The permission flags after a click that leaves the other two as they are.
permissionFlags_keepOthers(row, permission, checked) ==
    [row EXCEPT !.create = IF permission = create THEN checked ELSE @,
                !.read = IF permission = read THEN checked ELSE @,
                !.edit = IF permission = edit THEN checked ELSE @]

\* Lines 393-399: only the clicked permission can be true.
permissionFlags(row, permission, checked) ==
    [row EXCEPT !.create = IF permission = create THEN checked ELSE FALSE,
                !.read = IF permission = read THEN checked ELSE FALSE,
                !.edit = IF permission = edit THEN checked ELSE FALSE]

\* combobox.tsx 39-43: the value the Combobox reports when option is picked.
comboboxValue(value, option) == IF option = value THEN <<>> ELSE option

(***************************************************************************)
(* Inputs of the classifier: handler names and HTTP methods.               *)
(***************************************************************************)
h_copyAndDeleteRecord == <<"c","o","p","y","A","n","d","D","e","l","e","t","e","R","e","c","o","r","d">>

h_deleteItem == <<"d","e","l","e","t","e","I","t","e","m">>

h_importData == <<"i","m","p","o","r","t","D","a","t","a">>

h_unpostEntry == <<"u","n","p","o","s","t","E","n","t","r","y">>

h_deallocate == <<"d","e","a","l","l","o","c","a","t","e">>

h_saveBudgetLine == <<"s","a","v","e","B","u","d","g","e","t","L","i","n","e">>

h_updateTrade == <<"u","p","d","a","t","e","T","r","a","d","e">>

h_loadAll == <<"l","o","a","d","A","l","l">>

h_checkSum == <<"c","h","e","c","k","S","u","m">>

h_isValid == <<"i","s","V","a","l","i","d">>

h_getTradeDetails == <<"g","e","t","T","r","a","d","e","D","e","t","a","i","l","s">>

h_budgetLine == <<"b","u","d","g","e","t","L","i","n","e">>

h_list == <<"l","i","s","t">>

h_run == <<"r","u","n">>

h_COPY == <<"C","O","P","Y">>

h_saveAndUpdate == <<"s","a","v","e","A","n","d","U","p","d","a","t","e">>

h_loadCopy == <<"l","o","a","d","C","o","p","y">>

HandlerNames ==
    {h_copyAndDeleteRecord, h_deleteItem, h_importData, h_unpostEntry,
     h_deallocate, h_saveBudgetLine, h_updateTrade, h_loadAll,
     h_checkSum, h_isValid, h_getTradeDetails, h_budgetLine,
     h_list, h_run, h_COPY, h_saveAndUpdate,
     h_loadCopy,
     <<>>, null}

m_get == <<"g","e","t">>

m_Post == <<"P","o","s","t">>

m_PATCH == <<"P","A","T","C","H">>

m_OPTIONS == <<"O","P","T","I","O","N","S">>

HttpMethods == {GET, POST, PUT, DELETE, m_get, m_Post, m_PATCH, m_OPTIONS, <<>>, null}

(***************************************************************************)
(* Inputs of the matcher. The observation paths are canonical full paths,  *)
(* as processFiles passes them (one leading slash, no repeated slash, no   *)
(* trailing slash but for the root); the policy paths are keys of a policy *)
(* document.                                                               *)
(***************************************************************************)
p_trade == <<"/","t","r","a","d","e">>

p_Trade_123 == <<"/","T","r","a","d","e","/","1","2","3">>

p_xyz == <<"/","x","y","z">>

p_ctrm_v1_trade_123 == <<"/","c","t","r","m","-","a","p","i","/","a","p","i","/","v","1","/","t","r","a","d","e","/","1","2","3">>

p_api_v1_trade == <<"/","a","p","i","/","v","1","/","t","r","a","d","e">>

p_trade_order == <<"/","t","r","a","d","e","/","o","r","d","e","r">>

p_root == <<"/">>

p_api_v1_v2_trade == <<"/","a","p","i","/","v","1","/","v","2","/","t","r","a","d","e">>

p_apiary_order == <<"/","a","p","i","a","r","y","/","o","r","d","e","r">>

ApiPaths ==
    {p_trade, p_Trade_123, p_xyz, p_ctrm_v1_trade_123,
     p_api_v1_trade, p_trade_order, p_root, p_api_v1_v2_trade,
     p_apiary_order}

pp_trade == <<"/","t","r","a","d","e">>

pp_Trade_ == <<"/","T","r","a","d","e","/">>

pp_order == <<"/","o","r","d","e","r">>

pp_trade_order == <<"/","t","r","a","d","e","/","o","r","d","e","r">>

pp_trade_dash_order == <<"/","t","r","a","d","e","-","o","r","d","e","r">>

pp_jk == <<"/","j","k">>

pp_root == <<"/">>

PolicyPaths ==
    {pp_trade, pp_Trade_, pp_order, pp_trade_order,
     pp_trade_dash_order, pp_jk, pp_root}

h_get_trade_details == <<"g","e","t","_","t","r","a","d","e","_","d","e","t","a","i","l","s">>

\* A handler name of twelve words.
h_trade_order_x6 ==
    <<"t","r","a","d","e","_","o","r","d","e","r","_","t","r","a","d","e","_","o","r","d","e","r","_","t","r","a","d","e","_","o","r","d","e","r","_","t","r","a","d","e","_","o","r","d","e","r","_","t","r","a","d","e","_","o","r","d","e","r","_","t","r","a","d","e","_","o","r","d","e","r">>

MatchHandlers == {h_getTradeDetails, h_get_trade_details, h_trade_order_x6, <<>>, null}

MaxPolicyPaths == 2

\* The sequences of at most n distinct elements of S (Object.keys of an
\* object holds no key twice).
DistinctSeqs(S, n) ==
    UNION {{s \in [1..k -> S] : \A i, j \in 1..k : i # j => s[i] # s[j]} : k \in 0..n}

(***************************************************************************)
(* Inputs of the resolver: policy entries built from every section of at   *)
(* most MaxSectionKeys members for Action and of at most one member for    *)
(* the other sections.                                                     *)
(***************************************************************************)
MaxSectionKeys == 2

Member(keys) == [key : keys, truthy : BOOLEAN]

\* The sections of at most n members with distinct keys, and the absent one.
Sections(keys, n) ==
    {NoSection} \cup
    {Section(s) : s \in UNION {{m \in [1..k -> Member(keys)] :
                \A i, j \in 1..k : i # j => m[i].key # m[j].key} : k \in 0..n}}

ResolverEntries ==
    [gridAccess : Sections({create, read}, 1),
     action : Sections({create, kw_save, k_add, k_approve}, MaxSectionKeys),
     toolbar : Sections({create, kw_save}, 1),
     widgets : Sections({create, k_approve}, 1)]

AccessTypes == {create, read, edit, null}

(***************************************************************************)
(* Inputs of the aggregation loop: observations and policy documents.      *)
(***************************************************************************)
MaxEntries == 3

c_ctrm_api == <<"/","c","t","r","m","-","a","p","i">>

a_api_v1_trade_123 == <<"/","a","p","i","/","v","1","/","t","r","a","d","e","/","1","2","3">>

a_trade_slashes == <<"/","/","t","r","a","d","e","/">>

Observation(context_path, api, method, java_method_name) ==
    [isObject |-> TRUE, context_path |-> context_path, api |-> api, method |-> method,
     java_method_name |-> java_method_name]

\* An element of the array that is null: reading a field of it throws.
e_null ==
    [isObject |-> FALSE, context_path |-> null, api |-> null, method |-> null,
     java_method_name |-> null]

e_tradeDetails == Observation(c_ctrm_api, a_api_v1_trade_123, GET, h_getTradeDetails)

e_xyz == Observation(null, p_xyz, GET, h_run)

e_order == Observation(null, p_trade_order, POST, h_saveBudgetLine)

e_trade == Observation(null, p_trade, GET, null)

e_tradeAgain == Observation(<<>>, a_trade_slashes, null, h_updateTrade)

e_bare == Observation(null, null, null, null)

a_Trade == <<"/","T","r","a","d","e">>

e_TradeUpper == Observation(null, a_Trade, POST, h_saveBudgetLine)

Observations ==
    {e_tradeDetails, e_xyz, e_order, e_trade, e_tradeAgain, e_TradeUpper, e_bare, e_null}

pp_trade_orders == <<"/","t","r","a","d","e","/","o","r","d","e","r","s">>

Grant(key) == [key |-> key, truthy |-> TRUE]

Withheld(key) == [key |-> key, truthy |-> FALSE]

PolicyEntry(gridAccess, action, toolbar, widgets) ==
    [gridAccess |-> gridAccess, action |-> action, toolbar |-> toolbar, widgets |-> widgets]

doc_tradeFirst ==
    << [key |-> pp_trade,
        entry |-> PolicyEntry(Section(<<Grant(read)>>), Section(<<Grant(kw_save)>>),
                              NoSection, NoSection)],
       [key |-> pp_jk,
        entry |-> PolicyEntry(NoSection, Section(<<Grant(k_approve)>>), NoSection, NoSection)] >>

doc_ordersFirst ==
    << [key |-> pp_trade_orders,
        entry |-> PolicyEntry(Section(<<Withheld(create)>>),
                              Section(<<Withheld(k_add), Grant(kw_save)>>),
                              NoSection, NoSection)],
       [key |-> pp_trade,
        entry |-> PolicyEntry(Section(<<Grant(create), Grant(read)>>), NoSection,
                              NoSection, Section(<<Grant(k_view)>>))] >>

doc_empty == <<>>

PolicyDocuments == {doc_tradeFirst, doc_ordersFirst, doc_empty}

ApiMonitors == UNION {[1..n -> Observations] : n \in 0..MaxEntries}

\* The runs whose results are displayed and edited.
DisplayedRuns ==
    { [apiMonitor |-> <<e_tradeDetails, e_order>>, doc |-> doc_tradeFirst],
      [apiMonitor |-> <<e_order>>, doc |-> doc_ordersFirst],
      [apiMonitor |-> <<e_xyz>>, doc |-> doc_tradeFirst],
      [apiMonitor |-> <<e_trade>>, doc |-> doc_tradeFirst],
      [apiMonitor |-> <<e_bare>>, doc |-> doc_empty],
      [apiMonitor |-> <<>>, doc |-> doc_tradeFirst] }

\* What the user types into the path field of a row.
TypedPaths == {<<>>, p_trade}

(***************************************************************************)
(* Inputs of the path normalization: raw paths made of segments.           *)
(***************************************************************************)
MaxSegments == 4

seg_api == <<"a","p","i">>

seg_ctrm_api == <<"c","t","r","m","-","a","p","i">>

seg_gw == <<"g","w">>

seg_v1 == <<"v","1">>

seg_v2_0 == <<"v","2",".","0">>

seg_Trade == <<"T","r","a","d","e">>

seg_apiary == <<"a","p","i","a","r","y">>

PathSegments == {seg_api, seg_ctrm_api, seg_gw, seg_v1, seg_v2_0, seg_Trade, seg_apiary, <<>>}

\* The segments joined by slashes.
RECURSIVE joinSegments(_)
joinSegments(segs) ==
    IF Len(segs) = 0 THEN <<>>
    ELSE IF Len(segs) = 1 THEN segs[1]
    ELSE segs[1] \o SLASH \o joinSegments(Tail(segs))

\* The raw paths: up to MaxSegments segments, with or without a leading slash.
RawPaths ==
    LET seqs == UNION {[1..n -> PathSegments] : n \in 0..MaxSegments}
    IN  {joinSegments(s) : s \in seqs} \cup {SLASH \o joinSegments(s) : s \in seqs}

(***************************************************************************)
(* Initial values of the state a specification does not exercise.          *)
(***************************************************************************)
NoStats ==
    [totalEntries |-> 0, processedEntries |-> 0, matchedRoutes |-> 0,
     unmatchedRoutes |-> 0, highConfidence |-> 0, lowConfidence |-> 0]

NoRun == [phase |-> "none"]

\* A File or null. A file is what reading and parsing it gives: json is
\* "invalid" when JSON.parse throws, content is what the parsed value holds.
NoFile == [present |-> FALSE]

File(json, content) == [present |-> TRUE, json |-> json, content |-> content]

\* GeneratedItem[] | null
NullJson == [set |-> FALSE, items |-> <<>>]

Json(items) == [set |-> TRUE, items |-> items]

\* Record<string, PolicyEntry> | null
NullPolicy == [set |-> FALSE, doc |-> <<>>]

Policy(doc) == [set |-> TRUE, doc |-> doc]

IndexIdle ==
    /\ apiFile = NoFile
    /\ policyFile = NoFile
    /\ generatedJson = NullJson
    /\ policyData = NullPolicy
    /\ isProcessing = FALSE
    /\ processingStats = NoStats
    /\ pc = "idle"
    /\ run = NoRun

DisplayEmpty ==
    /\ rows = <<>>
    /\ selectAll = FALSE

indexVars == <<apiFile, policyFile, generatedJson, policyData, isProcessing,
               processingStats, pc, run>>

displayVars == <<rows, selectAll>>

Pending == [done |-> FALSE]

Returned(v) == [done |-> TRUE, value |-> v]

\* The call ended in its catch block.
Thrown == [done |-> TRUE, error |-> TRUE]

(***************************************************************************)
(* SpecClassify: determineAccessType applied to every handler name and     *)
(* HTTP method of the input sets.                                          *)
(***************************************************************************)
InitClassify ==
    /\ IndexIdle
    /\ DisplayEmpty
    /\ call \in [fn : {"determineAccessType"},
                 javaMethodName : HandlerNames, httpMethod : HttpMethods]
    /\ ret = Pending

Classify ==
    /\ call.fn = "determineAccessType"
    /\ ~ret.done
    /\ ret' = Returned(determineAccessType(call.javaMethodName, call.httpMethod))
    /\ UNCHANGED <<indexVars, displayVars, call>>

NextClassify == Classify

SpecClassify == InitClassify /\ [][NextClassify]_vars

(***************************************************************************)
(* The classifier's rule table as the specification lists it (4.3, rules   *)
(* 1-9): keywords, admitted HTTP methods, category.                        *)
(***************************************************************************)
RuleTable ==
    << [kws |-> {kw_copy},                 methods |-> {POST, GET},         cat |-> create],
       [kws |-> {kw_delete},               methods |-> {POST, GET, DELETE}, cat |-> edit],
       [kws |-> {kw_import},               methods |-> {POST, GET},         cat |-> create],
       [kws |-> {kw_unpost, kw_deallocate}, methods |-> {POST, GET},        cat |-> create],
       [kws |-> {kw_save},                 methods |-> {POST, GET},         cat |-> create],
       [kws |-> {kw_update},               methods |-> {POST, GET},         cat |-> edit],
       [kws |-> {kw_load, kw_check},       methods |-> {POST, GET},         cat |-> read],
       [kws |-> {kw_is},                   methods |-> {POST, GET},         cat |-> read],
       [kws |-> {kw_get},                  methods |-> {GET, POST},         cat |-> read] >>

\* Rule i applies: a keyword is a case-insensitive substring of the handler
\* name and the method, in upper case, is in the rule's method set.
RuleApplies(i, handler, httpMethod) ==
    /\ handler # null
    /\ httpMethod # null
    /\ \E kw \in RuleTable[i].kws : includes(toLowerCase(handler), kw)
    /\ toUpperCase(httpMethod) \in RuleTable[i].methods

SomeRuleApplies(handler, httpMethod) ==
    \E i \in 1..Len(RuleTable) : RuleApplies(i, handler, httpMethod)

FirstRule(handler, httpMethod) ==
    CHOOSE i \in 1..Len(RuleTable) :
        /\ RuleApplies(i, handler, httpMethod)
        /\ \A j \in 1..(i - 1) : ~RuleApplies(j, handler, httpMethod)

\* The category the HTTP method alone stands for, null for any other method.
CategoryOfMethod(httpMethod) ==
    IF httpMethod = null THEN null
    ELSE LET http == toUpperCase(httpMethod)
         IN  IF http \in {DELETE, PUT} THEN edit
             ELSE IF http = POST THEN create
             ELSE IF http = GET THEN read
             ELSE null

Classified == call.fn = "determineAccessType" /\ ret.done

\* C5: determineAccessType is a first-match-wins cascade: whenever some rule
\* 1-9 applies to the handler name and method, the result is the category of
\* the lowest-numbered rule that applies.
C5_FirstMatchWins ==
    (Classified /\ SomeRuleApplies(call.javaMethodName, call.httpMethod))
        => ret.value = RuleTable[FirstRule(call.javaMethodName, call.httpMethod)].cat

\* C5 witness: 'copyAndDeleteRecord' with POST (rules 1 and 2 both apply) has
\* been classified as create.
C5_Witness ==
    /\ Classified
    /\ call.javaMethodName = h_copyAndDeleteRecord
    /\ call.httpMethod = POST
    /\ RuleApplies(1, call.javaMethodName, call.httpMethod)
    /\ RuleApplies(2, call.javaMethodName, call.httpMethod)
    /\ ret.value = create

\* C6 as stated: when no rule 1-9 applies, an empty or missing handler name
\* included, the result is the category of the HTTP method alone, null only
\* for a method other than DELETE, PUT, POST, GET.
C6_Original ==
    (Classified /\ ~SomeRuleApplies(call.javaMethodName, call.httpMethod))
        => ret.value = CategoryOfMethod(call.httpMethod)

\* C6 amended: when no rule 1-9 applies to a non-empty handler name, the
\* result is the category of the HTTP method alone (DELETE and PUT edit, POST
\* create, GET read, null otherwise); for an empty or missing handler name
\* the result is null whatever the method.
C6_FallbackByMethod ==
    (Classified /\ ~SomeRuleApplies(call.javaMethodName, call.httpMethod))
        => ret.value = IF Falsy(call.javaMethodName) THEN null
                       ELSE CategoryOfMethod(call.httpMethod)

\* C6 witness: a handler name no rule applies to, with PUT, has been
\* classified as edit by the method alone.
C6_Witness ==
    /\ Classified
    /\ call.javaMethodName = h_run
    /\ call.httpMethod = PUT
    /\ ~SomeRuleApplies(call.javaMethodName, call.httpMethod)
    /\ ret.value = edit

\* C29: for every handler name and HTTP method determineAccessType returns
\* create, read, edit or null, never copy or delete, so the resolver never
\* looks up the copy row or the delete row of its synonym table.
C29_ThreeCategoriesOrNull ==
    Classified
       => /\ ret.value \in {create, read, edit, null}
          /\ ret.value \notin {kw_copy, kw_delete}
          /\ synonyms(ret.value)
                \in {synonyms(create), synonyms(read), synonyms(edit), <<>>}

\* C29 witness: 'deleteItem' with DELETE, which names the delete keyword and
\* the DELETE method, has been classified as edit, and 'loadCopy' with GET,
\* which names the copy keyword, is classified as create.
C29_Witness ==
    /\ Classified
    /\ call.javaMethodName = h_deleteItem
    /\ call.httpMethod = DELETE
    /\ ret.value = edit
    /\ synonyms(ret.value) # synonyms(kw_delete)
    /\ determineAccessType(h_loadCopy, GET) = create

(***************************************************************************)
(* SpecMatch: findBestPolicyMatchWithScore applied to every observation    *)
(* path, handler name and list of policy paths of the input sets.          *)
(***************************************************************************)
InitMatch ==
    /\ IndexIdle
    /\ DisplayEmpty
    /\ call \in [fn : {"findBestPolicyMatchWithScore"},
                 apiPath : ApiPaths, javaMethodName : MatchHandlers,
                 policyPaths : DistinctSeqs(PolicyPaths, MaxPolicyPaths)]
    /\ ret = Pending

Match ==
    /\ call.fn = "findBestPolicyMatchWithScore"
    /\ ~ret.done
    /\ ret' = Returned(findBestPolicyMatchWithScore(call.apiPath, call.javaMethodName,
                                                    call.policyPaths))
    /\ UNCHANGED <<indexVars, displayVars, call>>

NextMatch == Match

SpecMatch == InitMatch /\ [][NextMatch]_vars

Matched == call.fn = "findBestPolicyMatchWithScore" /\ ret.done

\* The policy paths of the call that normalize to the observation path.
ExactCandidates ==
    {i \in 1..Len(call.policyPaths) :
        pCleanOf(call.policyPaths[i]) = apiCleanOf(call.apiPath)}

\* The highest raw score among the candidates of the call.
WinningRaw ==
    LET apiClean == apiCleanOf(call.apiPath)
        raws == {candidateScore(apiClean, tokensOf(apiClean),
                                methodKeywordsOf(call.javaMethodName),
                                pCleanOf(call.policyPaths[i])) :
                    i \in 1..Len(call.policyPaths)}
    IN  CHOOSE m \in raws : \A x \in raws : x <= m

CallMaxPossible ==
    maxPossibleScoreOf(tokensOf(apiCleanOf(call.apiPath)), apiCleanOf(call.apiPath))

\* C2: for a non-exact match the score returned is the inverted ratio
\* 1 - raw/(tokenCount*10 + stringLength + 50) of the winning raw score, so
\* that 0 is the best value.
C2_InvertedRatio ==
    (Matched /\ Len(call.policyPaths) > 0 /\ ExactCandidates = {})
        => ret.value.score.num * CallMaxPossible
               = (CallMaxPossible - WinningRaw) * ret.value.score.den

\* C4: whenever some policy path normalizes to the same string as the
\* observation path, the result is the first such policy path with the score
\* 0.0, whatever the other candidates are and wherever it sits in the list.
C4_ExactMatchShortCircuit ==
    (Matched /\ ExactCandidates # {})
        => /\ ret.value.score = Literal(0)
           /\ \E i \in ExactCandidates :
                 /\ ret.value.path = call.policyPaths[i]
                 /\ \A j \in ExactCandidates : i <= j

\* C4 witness: the exact candidate is the last of the list, after a candidate
\* that shares a token with the observation path.
C4_Witness ==
    /\ Matched
    /\ call.apiPath = p_trade
    /\ call.policyPaths = <<pp_trade_order, pp_Trade_>>
    /\ ExactCandidates = {2}
    /\ ret.value.path = pp_Trade_

\* The word tokens of a handler name as the specification splits it: at
\* every lowercase-to-uppercase transition and at "_", "-" and ".".
wordTokens(javaMethodName) ==
    splitRuns(toLowerCase(camelSplit(orEmpty(javaMethodName))), keywordSeparators, <<>>)

\* The raw score of a candidate by the specification: 10 per shared token,
\* the longest common substring, 5 per word token of the handler name longer
\* than 3 characters that is a substring of the candidate.
SpecifiedRaw(policyPath) ==
    LET apiClean == apiCleanOf(call.apiPath)
        pClean == pCleanOf(policyPath)
        words == wordTokens(call.javaMethodName)
    IN  overlapOf(tokensOf(apiClean), tokensOf(pClean)) * 10
           + lcsLen(apiClean, pClean)
           + 5 * Cardinality({k \in 1..Len(words) :
                                 Len(words[k]) > 3 /\ includes(pClean, words[k])})

\* C15: every word token of the handler name longer than 3 characters that
\* is a substring of a candidate adds 5 to that candidate's raw score: the
\* candidate returned for a non-exact match has the raw score the
\* specification gives it, and no candidate has a higher one.
C15_HandlerBonus ==
    (Matched /\ Len(call.policyPaths) > 0 /\ ExactCandidates = {} /\ ~Falsy(call.apiPath))
       => /\ \E i \in 1..Len(call.policyPaths) :
                /\ ret.value.path = call.policyPaths[i]
                /\ ret.value.score.num = SpecifiedRaw(call.policyPaths[i])
          /\ \A j \in 1..Len(call.policyPaths) :
                SpecifiedRaw(call.policyPaths[j]) <= ret.value.score.num

\* The raw score the code gives a candidate of the call.
CallRaw(i) ==
    LET apiClean == apiCleanOf(call.apiPath)
    IN  candidateScore(apiClean, tokensOf(apiClean), methodKeywordsOf(call.javaMethodName),
                       pCleanOf(call.policyPaths[i]))

\* Candidate i is ahead of candidate j: a higher raw score, else a longer
\* normalized path, else an earlier place in the list.
Ahead(i, j) ==
    \/ CallRaw(i) > CallRaw(j)
    \/ /\ CallRaw(i) = CallRaw(j)
       /\ Len(pCleanOf(call.policyPaths[i])) > Len(pCleanOf(call.policyPaths[j]))
    \/ /\ CallRaw(i) = CallRaw(j)
       /\ Len(pCleanOf(call.policyPaths[i])) = Len(pCleanOf(call.policyPaths[j]))
       /\ i <= j

\* C16: with no exact candidate, the path returned is the candidate with the
\* highest raw score; among equal raw scores the one whose normalized path is
\* longest; among those of equal length the earliest of the list.
C16_CandidateSelection ==
    (Matched /\ Len(call.policyPaths) > 0 /\ ExactCandidates = {} /\ ~Falsy(call.apiPath))
       => \E i \in 1..Len(call.policyPaths) :
             /\ ret.value.path = call.policyPaths[i]
             /\ \A j \in 1..Len(call.policyPaths) : Ahead(i, j)

\* C16 witness: /xyz scores 0 against /jk and against /trade; the longer
\* /trade, second in the list, is returned.
C16_Witness ==
    /\ Matched
    /\ call.apiPath = p_xyz
    /\ call.policyPaths = <<pp_jk, pp_trade>>
    /\ CallRaw(1) = CallRaw(2)
    /\ ret.value.path = pp_trade

\* C17: every score returned lies in [0,1]: the winning raw score never
\* exceeds tokenCount*10 + stringLength + 50.
C17_ScoreInUnitInterval ==
    Matched
       => /\ 0 <= ret.value.score.num
          /\ ret.value.score.den > 0
          /\ ret.value.score.num <= ret.value.score.den

(***************************************************************************)
(* SpecResolve: the resolver applied to a matched policy path, every       *)
(* access type and every policy entry of the input set.                    *)
(***************************************************************************)
InitResolve ==
    /\ IndexIdle
    /\ DisplayEmpty
    /\ call \in [fn : {"rolePath"}, policyEntry : ResolverEntries,
                 bestPolicyMatch : {pp_trade}, accessType : AccessTypes]
    /\ ret = Pending

Resolve ==
    /\ call.fn = "rolePath"
    /\ ~ret.done
    /\ ret' = Returned(rolePathOf(call.policyEntry, call.bestPolicyMatch, call.accessType))
    /\ UNCHANGED <<indexVars, displayVars, call>>

NextResolve == Resolve

SpecResolve == InitResolve /\ [][NextResolve]_vars

Resolved == call.fn = "rolePath" /\ ret.done /\ call.accessType # null

\* The key is a member of the section, whatever its value.
HasKey(sec, key) == \E i \in 1..Len(sec.members) : sec.members[i].key = key

\* What a section yields by the specification (4.4, 2a-2c): the direct key,
\* else the first synonym of the table that is a member, else the first
\* declared key; null for an absent or empty section.
SectionChoice(sec, accessType) ==
    LET candidates == synonyms(accessType)
        present == {i \in 1..Len(candidates) : HasKey(sec, candidates[i])}
    IN  IF ~sec.present \/ sec.members = <<>> THEN null
        ELSE IF HasKey(sec, accessType) THEN accessType
        ELSE IF present # {} THEN candidates[CHOOSE i \in present : \A j \in present : i <= j]
        ELSE sec.members[1].key

FallbackSections == <<sec_Action, sec_Toolbar, sec_widgets>>

\* The rolePath the fallback search of the specification gives.
FallbackRolePath(policyEntry, bestPolicyMatch, accessType) ==
    LET yielding == {i \in 1..3 :
            SectionChoice(sectionOf(policyEntry, FallbackSections[i]), accessType) # null}
        first == CHOOSE i \in yielding : \A j \in yielding : i <= j
    IN  IF yielding = {} THEN <<>>
        ELSE <<rolePathString(bestPolicyMatch, FallbackSections[first],
                   SectionChoice(sectionOf(policyEntry, FallbackSections[first]), accessType))>>

\* C7: whenever the category is a key of the policy entry's 'Grid Access'
\* section, whatever its value, the rolePath is exactly
\* ['<policyPath>.Grid Access.<category>'].
C7_GridAccessPresence ==
    (Resolved /\ HasKey(call.policyEntry.gridAccess, call.accessType))
        => ret.value = <<rolePathString(call.bestPolicyMatch, sec_GridAccess, call.accessType)>>

\* C8: when 'Grid Access' lacks the category, Action, Toolbar and widgets are
\* tried in that order and the first section yielding a result wins; inside a
\* section the direct key comes first, then the first synonym in table order,
\* then the first declared key; the rolePath is [] only if all three sections
\* are absent or empty.
C8_FallbackOrder ==
    (Resolved /\ ~HasKey(call.policyEntry.gridAccess, call.accessType))
        => ret.value = FallbackRolePath(call.policyEntry, call.bestPolicyMatch,
                                        call.accessType)

\* C9: when 'Grid Access' has no key for the category and Action has no
\* direct key for it but has a synonym of it, the rolePath is
\* ['<policyPath>.Action.<first synonym present, in table order>'].
C9_SynonymResolution ==
    LET candidates == synonyms(call.accessType)
        present == {i \in 1..Len(candidates) : HasKey(call.policyEntry.action, candidates[i])}
    IN  (/\ Resolved
         /\ ~HasKey(call.policyEntry.gridAccess, call.accessType)
         /\ ~HasKey(call.policyEntry.action, call.accessType)
         /\ present # {})
        => ret.value = <<rolePathString(call.bestPolicyMatch, sec_Action,
                            candidates[CHOOSE i \in present : \A j \in present : i <= j])>>

(***************************************************************************)
(* SpecAggregate: processFiles from the point where both files are parsed  *)
(* (Index.tsx 139) to the publication of the results (Index.tsx 418). One  *)
(* step of the loop is one observation of the API monitor. The loop yields *)
(* to the event loop only after every 50th record (Index.tsx 410-412); the *)
(* monitors here are shorter, so the loop runs without interleaving.       *)
(***************************************************************************)
InitAggregate ==
    /\ DisplayEmpty
    /\ call = [fn |-> "processFiles"]
    /\ ret = Pending
    /\ \E apiMonitor \in ApiMonitors, doc \in PolicyDocuments :
          /\ apiFile = File("object", apiMonitor)
          /\ policyFile = File("object", doc)
          /\ generatedJson = NullJson
          /\ policyData = Policy(doc)
          /\ isProcessing = TRUE
          /\ processingStats = [NoStats EXCEPT !.totalEntries = Len(apiMonitor)]
          /\ pc = "loop"
          /\ run = loopLocals(apiMonitor, doc)

\* Lines 307-413: the body of the loop for the next observation. After every
\* YieldEvery-th record the loop awaits a timer and the event loop runs.
LoopStep ==
    /\ pc = "loop"
    /\ run.i <= Len(run.apiMonitor)
    /\ run.apiMonitor[run.i].isObject
    /\ run' = iteration(run, run.apiMonitor[run.i])
    /\ processingStats' = IF run'.last.skipped THEN processingStats ELSE statsOf(run')
    /\ pc' = IF yieldsAfter(run') THEN "yield" ELSE "loop"
    /\ UNCHANGED <<apiFile, policyFile, generatedJson, policyData, isProcessing,
                   displayVars, call, ret>>

\* Lines 415-450: the results are published and processing ends. A
\* ResultDisplay that shows earlier results gets new data: its effect
\* (ResultDisplay.tsx 218-303) rebuilds the rows unless the data is empty.
\* The rows are empty from here until that effect has run.
Finish ==
    /\ pc = "loop"
    /\ run.i > Len(run.apiMonitor)
    /\ generatedJson' = Json(run.resultsMap)
    /\ isProcessing' = FALSE
    /\ pc' = "idle"
    /\ ret' = Returned(run.resultsMap)
    /\ rows' = IF Len(run.resultsMap) > 0 THEN <<>> ELSE rows
    /\ UNCHANGED <<apiFile, policyFile, policyData, processingStats, run, selectAll, call>>

\* A throw in the loop whose handling does not end processing.
LoopThrows_noFinally ==
    /\ pc = "loop"
    /\ run.i <= Len(run.apiMonitor)
    /\ ~run.apiMonitor[run.i].isObject
    /\ pc' = "idle"
    /\ ret' = Thrown
    /\ UNCHANGED <<apiFile, policyFile, generatedJson, policyData, isProcessing,
                   processingStats, run, displayVars, call>>

\* Lines 309, 441-451: reading apiEntry.context_path of a null element throws;
\* the catch reports the failure and the finally ends processing.
LoopThrows ==
    /\ pc = "loop"
    /\ run.i <= Len(run.apiMonitor)
    /\ ~run.apiMonitor[run.i].isObject
    /\ isProcessing' = FALSE
    /\ pc' = "idle"
    /\ ret' = Thrown
    /\ UNCHANGED <<apiFile, policyFile, generatedJson, policyData, processingStats, run,
                   displayVars, call>>

NextAggregate == LoopStep \/ LoopThrows \/ Finish

SpecAggregate == InitAggregate /\ [][NextAggregate]_vars

\* The last step of the loop produced a record.
Recorded == pc = "loop" /\ ~run.last.skipped

\* The observation path of the last step shares no token and no substring
\* with any policy path.
NothingShared ==
    LET apiClean == apiCleanOf(run.last.fullPath)
        keys == keysOf(run.parsedPolicyData)
    IN  \A i \in 1..Len(keys) :
           /\ overlapOf(tokensOf(apiClean), tokensOf(pCleanOf(keys[i]))) = 0
           /\ lcsLen(apiClean, pCleanOf(keys[i])) = 0

\* The double the matcher returned is at least 0.2.
ScoreAtLeastCutoff(score) ==
    IF score.literal THEN 5 * score.num >= score.den
    ELSE 5 * score.num > score.den

\* The step counted its record as unmatched and gave it no role path.
CountedUnmatched ==
    /\ run'.unmatchedCount = run.unmatchedCount + 1
    /\ run'.matchedCount = run.matchedCount
    /\ processingStats'.unmatchedRoutes = processingStats.unmatchedRoutes + 1
    /\ processingStats'.matchedRoutes = processingStats.matchedRoutes
    /\ run'.last.rolePath = <<>>
    /\ run'.resultsMap[Len(run'.resultsMap)].rolePath = <<>>

\* C1: with a non-empty list of policy paths, an observation whose path
\* shares no token and no substring with any policy path, so that the winning
\* raw score is 0, is treated as unmatched: its record has an empty rolePath
\* and it adds one to unmatchedRoutes and nothing to matchedRoutes.
C1_NoOverlapUnmatched ==
    [][(/\ pc = "loop" /\ pc' = "loop"
        /\ ~run'.last.skipped
        /\ Len(run.parsedPolicyData) > 0
        /\ NothingShared'
        /\ ~run'.last.matchResult.score.literal
        /\ run'.last.matchResult.score.num = 0)
       => CountedUnmatched]_vars

\* C3: a step whose matcher score is at least 0.2 uses no policy path, gives
\* its record an empty rolePath and counts it in unmatchedRoutes; a step that
\* uses a policy path has a score below 0.2.
C3_ConfidenceGate ==
    [][(pc = "loop" /\ pc' = "loop" /\ ~run'.last.skipped)
       => /\ ScoreAtLeastCutoff(run'.last.matchResult.score)
                => (run'.last.bestPolicyMatch = null /\ CountedUnmatched)
          /\ run'.last.bestPolicyMatch # null
                => ~ScoreAtLeastCutoff(run'.last.matchResult.score)]_vars

\* C3 witness: /trade/order against /trade/orders and /trade scores 21/81,
\* the matcher names /trade/orders, and the record is counted as unmatched.
C3_Witness ==
    /\ Recorded
    /\ run.last.fullPath = p_trade_order
    /\ run.last.matchResult.path = pp_trade_orders
    /\ run.last.matchResult.score = returnedScore(21, 81)
    /\ ScoreAtLeastCutoff(run.last.matchResult.score)
    /\ run.last.bestPolicyMatch = null
    /\ run.last.rolePath = <<>>
    /\ run.unmatchedCount = 1
    /\ run.matchedCount = 0

\* The observations the loop has gone through.
Seen == 1..(run.i - 1)

\* The path of an observation as the specification normalizes it for
\* deduplication: the canonical path, letter case folded.
dedupKey(apiEntry) == toLowerCase(fullPathOf(apiEntry))

\* The record the loop makes of an observation, rolePath aside.
Describes(record, apiEntry) ==
    /\ record.methodType = (IF Falsy(apiEntry.method) THEN UNKNOWN ELSE apiEntry.method)
    /\ record.javaMethodName = orEmpty(apiEntry.java_method_name)

\* C11: two observations whose paths are equal after normalization, letter
\* case, trailing slash and repeated slashes aside, give exactly one record,
\* and it has the method and the handler name of the first of them.
C11_DedupKeepsFirst ==
    \A i \in Seen, j \in Seen :
       (/\ i < j
        /\ dedupKey(run.apiMonitor[i]) = dedupKey(run.apiMonitor[j])
        /\ \A h \in 1..(i - 1) : dedupKey(run.apiMonitor[h]) # dedupKey(run.apiMonitor[i]))
       => LET same == {k \in 1..Len(run.resultsMap) :
                          toLowerCase(run.resultsMap[k].path) = dedupKey(run.apiMonitor[i])}
          IN  /\ Cardinality(same) = 1
              /\ \A k \in same : Describes(run.resultsMap[k], run.apiMonitor[i])

\* The observations that are the first of their canonical path, in input order.
FirstOccurrences(apiMonitor) ==
    SelectSeq([i \in 1..Len(apiMonitor) |-> i],
              LAMBDA i : \A h \in 1..(i - 1) :
                            fullPathOf(apiMonitor[h]) # fullPathOf(apiMonitor[i]))

\* C12: the published list has one record per distinct path, in the order of
\* the first occurrence of each path in the API monitor, and each record is
\* the one of that first occurrence.
C12_FirstOccurrenceOrder ==
    generatedJson.set
       => LET firsts == FirstOccurrences(run.apiMonitor)
          IN  /\ Len(generatedJson.items) = Len(firsts)
              /\ \A k \in 1..Len(firsts) :
                    /\ generatedJson.items[k].path = fullPathOf(run.apiMonitor[firsts[k]])
                    /\ Describes(generatedJson.items[k], run.apiMonitor[firsts[k]])
              /\ \A k \in 1..Len(firsts), l \in 1..Len(firsts) :
                    generatedJson.items[k].path = generatedJson.items[l].path => k = l

\* C12 witness: /trade, /xyz and //trade/ are published as /trade (GET, no
\* handler) and /xyz, in that order.
C12_Witness ==
    /\ generatedJson.set
    /\ run.apiMonitor = <<e_trade, e_xyz, e_tradeAgain>>
    /\ Len(generatedJson.items) = 2
    /\ generatedJson.items[1].path = p_trade
    /\ generatedJson.items[1].methodType = GET
    /\ generatedJson.items[1].javaMethodName = <<>>
    /\ generatedJson.items[2].path = p_xyz

\* An observation that is not an object, or lacks its path, its method or
\* its handler name.
Malformed(apiEntry) ==
    \/ ~apiEntry.isObject
    \/ apiEntry.api = null
    \/ apiEntry.method = null
    \/ apiEntry.java_method_name = null

\* C18: a malformed observation never aborts the run: every run ends with its
\* results published, and the step that records a malformed observation
\* counts it in unmatchedRoutes and gives it an empty rolePath.
C18_MalformedIsLocal ==
    /\ [](pc = "idle" => generatedJson.set /\ ret # Thrown)
    /\ [][(/\ pc = "loop" /\ pc' = "loop"
           /\ Malformed(run.apiMonitor[run.i])
           /\ ~run'.last.skipped)
          => CountedUnmatched]_vars

\* The counters published so far partition the records of the result map.
CountersPartition ==
    /\ processingStats.matchedRoutes + processingStats.unmatchedRoutes
          = processingStats.processedEntries
    /\ processingStats.processedEntries = Len(run.resultsMap)
    /\ Len(run.resultsMap) <= processingStats.totalEntries
    /\ processingStats.highConfidence + processingStats.lowConfidence
          = processingStats.matchedRoutes

\* The step that counts an observation as unmatched records an empty rolePath.
UnmatchedHasNoRolePath ==
    processingStats'.unmatchedRoutes # processingStats.unmatchedRoutes
       => /\ processingStats'.unmatchedRoutes = processingStats.unmatchedRoutes + 1
          /\ run'.resultsMap[Len(run'.resultsMap)].rolePath = <<>>

\* C23: after every iteration of the loop, matchedRoutes + unmatchedRoutes =
\* processedEntries = the number of records in the result map <= totalEntries
\* and highConfidence + lowConfidence = matchedRoutes; every observation
\* counted unmatched has an empty rolePath.
C23_CountersPartition ==
    [][CountersPartition' /\ UnmatchedHasNoRolePath]_vars

\* C23 witness: of three observations one was matched, one was a duplicate
\* and skipped, one was counted unmatched.
C23_Witness ==
    /\ pc = "loop"
    /\ run.i = 4
    /\ processingStats.totalEntries = 3
    /\ processingStats.processedEntries = 2
    /\ processingStats.matchedRoutes = 1
    /\ processingStats.unmatchedRoutes = 1
    /\ Len(run.resultsMap) = 2
    /\ \E i \in 1..2 : run.resultsMap[i].rolePath # <<>>

\* The keys of a section.
sectionKeys(sec) == {sec.members[j].key : j \in 1..Len(sec.members)}

\* rolePath is empty or names a key of the policy document, a section that
\* the key's entry has, and a key of that section.
GrantExists(rolePath, doc) ==
    \/ rolePath = <<>>
    \/ /\ Len(rolePath) = 1
       /\ \E i \in 1..Len(doc),
             s \in {sec_GridAccess, sec_Action, sec_Toolbar, sec_widgets} :
             /\ sectionOf(doc[i].entry, s).present
             /\ \E k \in sectionKeys(sectionOf(doc[i].entry, s)) :
                   rolePath[1] = rolePathString(doc[i].key, s, k)

\* C25: every non-empty rolePath that processFiles records or publishes names
\* a policy path that is a key of the policy document, one of the sections
\* Grid Access, Action, Toolbar, widgets that this policy entry has, and a
\* grant key that is a key of that section.
C25_GrantExists ==
    /\ \A i \in 1..Len(run.resultsMap) :
          GrantExists(run.resultsMap[i].rolePath, run.parsedPolicyData)
    /\ \A i \in 1..Len(generatedJson.items) :
          GrantExists(generatedJson.items[i].rolePath, run.parsedPolicyData)

\* C25 witness: the published list has a record resolved in Grid Access and
\* a record resolved in Action through a synonym of its access type:
\* POST /trade/order saveBudgetLine is create, /trade has no Grid Access
\* create and no Action create, and its Action has save.
C25_Witness ==
    /\ pc = "idle"
    /\ generatedJson.set
    /\ \E i, j \in 1..Len(generatedJson.items) :
          /\ generatedJson.items[i].rolePath
                = <<rolePathString(pp_trade, sec_GridAccess, read)>>
          /\ generatedJson.items[j].path = p_trade_order
          /\ generatedJson.items[j].rolePath
                = <<rolePathString(pp_trade, sec_Action, kw_save)>>
    /\ ~truthyAt(entryOf(run.parsedPolicyData, pp_trade).action, create)

(***************************************************************************)
(* SpecNormalize: the two path normalizations, the matcher's cleaning      *)
(* (Index.tsx 210-214, 224) and the aggregator's canonical path            *)
(* (Index.tsx 309-314), applied to every raw path of the input set.        *)
(***************************************************************************)
\* Lines 309-314 for an observation whose path is all in api.
canonicalPathOf(raw) == fullPathOf(Observation(null, raw, null, null))

InitNormalize ==
    /\ IndexIdle
    /\ DisplayEmpty
    /\ call \in [fn : {"normalize"}, raw : RawPaths]
    /\ ret = Pending

Normalize ==
    /\ call.fn = "normalize"
    /\ ~ret.done
    /\ ret' = Returned([apiClean |-> apiCleanOf(call.raw),
                        apiTokens |-> tokensOf(apiCleanOf(call.raw)),
                        fullPath |-> canonicalPathOf(call.raw)])
    /\ UNCHANGED <<indexVars, displayVars, call>>

NextNormalize == Normalize

SpecNormalize == InitNormalize /\ [][NextNormalize]_vars

Normalized == call.fn = "normalize" /\ ret.done

\* C13: normalization is idempotent: the matcher's cleaning applied to its
\* own output returns that output, and so does the aggregator's
\* canonical-path step.
C13_Idempotent ==
    Normalized
       => /\ apiCleanOf(ret.value.apiClean) = ret.value.apiClean
          /\ canonicalPathOf(ret.value.fullPath) = ret.value.fullPath

\* The prefixes /<gateway-name>/api/v<digits>/ and /api/v<digits>/.
VersionedPrefixes ==
    LET versions == {seg_v1, seg_v2_0}
        gateways == {seg_ctrm_api, seg_gw}
    IN  {SLASH \o seg_api \o SLASH \o v \o SLASH : v \in versions}
           \cup {SLASH \o g \o SLASH \o seg_api \o SLASH \o v \o SLASH :
                    g \in gateways, v \in versions}

\* What follows the prefix: segments that are neither prefix nor version.
PlainRests ==
    {joinSegments(s) : s \in UNION {[1..n -> {seg_Trade, seg_apiary}] : n \in 1..2}}

\* C14: for a raw path /<gateway-name>/api/v<digits>/<rest> or
\* /api/v<digits>/<rest>, the string and the tokens used for scoring are
\* those of <rest> alone; and a path whose first segment only begins with
\* "api" keeps that segment.
C14_PrefixAndVersionStripped ==
    Normalized
       => /\ \A pre \in VersionedPrefixes, rest \in PlainRests :
                call.raw = pre \o rest
                   => /\ ret.value.apiClean = toLowerCase(rest)
                      /\ ret.value.apiTokens = tokensOf(toLowerCase(rest))
          /\ \A rest \in PlainRests :
                call.raw = SLASH \o seg_apiary \o SLASH \o rest
                   => ret.value.apiClean = seg_apiary \o SLASH \o toLowerCase(rest)

(***************************************************************************)
(* SpecDisplay: processFiles from the parsed files to the published        *)
(* results, then ResultDisplay mounted on them (Index.tsx 577-579): the    *)
(* effect that builds the rows and every sequence of row edits.            *)
(***************************************************************************)
InitDisplay ==
    /\ DisplayEmpty
    /\ call = [fn |-> "processFiles"]
    /\ ret = Pending
    /\ \E input \in DisplayedRuns :
          /\ apiFile = File("object", input.apiMonitor)
          /\ policyFile = File("object", input.doc)
          /\ generatedJson = NullJson
          /\ policyData = Policy(input.doc)
          /\ isProcessing = TRUE
          /\ processingStats = [NoStats EXCEPT !.totalEntries = Len(input.apiMonitor)]
          /\ pc = "loop"
          /\ run = loopLocals(input.apiMonitor, input.doc)

\* The positions of processFiles at which the event loop runs other handlers:
\* not started or ended, awaiting a file's text, awaiting the timer of a yield.
UiPoints == {"idle", "readApi", "readPolicy", "yield"}

\* Index.tsx 577: ResultDisplay is rendered, and no handler is running.
Mounted == generatedJson.set /\ policyData.set /\ pc \in UiPoints

policyRoutes == policyRoutesOf(policyData)

\* A policy route or the empty string.
RouteOrNone == {<<>>} \cup {policyRoutes[i] : i \in 1..Len(policyRoutes)}

\* ResultDisplay.tsx 218-303: the effect on data. It runs once for the data
\* it is given; before it has run on non-empty data there are no rows.
Effect ==
    /\ Mounted
    /\ Len(generatedJson.items) > 0
    /\ rows = <<>>
    /\ \E fuzzy \in [1..Len(generatedJson.items) -> RouteOrNone] :
          /\ \A i \in 1..Len(generatedJson.items) :
                fuzzy[i] \in findBestRouteMatch(generatedJson.items[i].path, policyRoutes)
          /\ rows' = sortEmptyRoutesFirst(
                        [i \in 1..Len(generatedJson.items) |->
                            rowOf(generatedJson.items[i], fuzzy[i])])
    /\ selectAll' = TRUE
    /\ UNCHANGED <<indexVars, call, ret>>

\* ResultDisplay.tsx 349-352.
handleSelectAll ==
    /\ Mounted
    /\ \E checked \in BOOLEAN :
          /\ selectAll' = checked
          /\ rows' = [i \in 1..Len(rows) |-> [rows[i] EXCEPT !.selected = checked]]
    /\ UNCHANGED <<indexVars, call, ret>>

\* ResultDisplay.tsx 354-362.
handleRowSelect ==
    /\ Mounted
    /\ \E idx \in 1..Len(rows), checked \in BOOLEAN :
          /\ rows' = [rows EXCEPT ![idx].selected = checked]
          /\ selectAll' = (\A i \in 1..Len(rows) : rows'[i].selected)
    /\ UNCHANGED <<indexVars, call, ret>>

\* ResultDisplay.tsx 364-375.
handlePathChange ==
    /\ Mounted
    /\ \E idx \in 1..Len(rows), value \in TypedPaths :
          \E fuzzyRoute \in findBestRouteMatch(value, policyRoutes) :
             rows' = [rows EXCEPT ![idx] =
                        IF @.baseInferred
                        THEN [@ EXCEPT !.path = value, !.route = fuzzyRoute,
                                       !.roleBase = inferRoleBaseFromRoute(fuzzyRoute)]
                        ELSE [@ EXCEPT !.path = value]]
    /\ UNCHANGED <<indexVars, selectAll, call, ret>>

\* A route change that sorts the rows again, those without a route first.
handleRouteChange_sorted ==
    /\ Mounted
    /\ \E idx \in 1..Len(rows), o \in 1..Len(policyRoutes) :
          LET value == comboboxValue(rows[idx].route, policyRoutes[o])
          IN  rows' = sortEmptyRoutesFirst(
                         [rows EXCEPT ![idx] =
                            [@ EXCEPT !.route = value,
                                      !.roleBase = inferRoleBaseFromRoute(value),
                                      !.baseInferred = FALSE]])
    /\ UNCHANGED <<indexVars, selectAll, call, ret>>

\* ResultDisplay.tsx 377-388, called by the Combobox of the row
\* (ResultDisplay.tsx 529-536) with one of the policy routes picked.
handleRouteChange ==
    /\ Mounted
    /\ \E idx \in 1..Len(rows), o \in 1..Len(policyRoutes) :
          LET value == comboboxValue(rows[idx].route, policyRoutes[o])
          IN  rows' = [rows EXCEPT ![idx] =
                         [@ EXCEPT !.route = value,
                                   !.roleBase = inferRoleBaseFromRoute(value),
                                   !.baseInferred = FALSE]]
    /\ UNCHANGED <<indexVars, selectAll, call, ret>>

\* ResultDisplay.tsx 390-410.
handlePermissionChange ==
    /\ Mounted
    /\ \E idx \in 1..Len(rows), permission \in {create, read, edit}, checked \in BOOLEAN :
          LET updated == permissionFlags(rows[idx], permission, checked)
          IN  \E fuzzyRoute \in findBestRouteMatch(updated.path, policyRoutes) :
                 rows' = [rows EXCEPT ![idx] =
                            IF Falsy(updated.roleBase)
                            THEN [updated EXCEPT !.route = fuzzyRoute,
                                                 !.roleBase = inferRoleBaseFromRoute(fuzzyRoute),
                                                 !.baseInferred = TRUE]
                            ELSE updated]
    /\ UNCHANGED <<indexVars, selectAll, call, ret>>

NextDisplay ==
    \/ LoopStep
    \/ Finish
    \/ Effect
    \/ handleSelectAll
    \/ handleRowSelect
    \/ handlePathChange
    \/ handleRouteChange
    \/ handlePermissionChange

SpecDisplay == InitDisplay /\ [][NextDisplay]_vars

SectionNames == {sec_GridAccess, sec_Action, sec_Toolbar, sec_widgets}

\* The grant keys: the three categories and every key of a section of the
\* policy document.
GrantKeys(doc) ==
    {create, read, edit}
        \cup UNION { {sectionOf(doc[i].entry, s).members[j].key :
                         j \in 1..Len(sectionOf(doc[i].entry, s).members)} :
                     i \in 1..Len(doc), s \in SectionNames }

\* rolePath is empty or one string <policyPath>.<sectionName>.<grantKey>.
WellFormedRolePath(rolePath, doc) ==
    \/ rolePath = <<>>
    \/ /\ Len(rolePath) = 1
       /\ \E i \in 1..Len(doc), s \in SectionNames, k \in GrantKeys(doc) :
             rolePath[1] = rolePathString(doc[i].key, s, k)

\* C10: the rolePath of every record is empty or a single string
\* <policyPath>.<sectionName>.<grantKey>, for the records processFiles
\* collects and publishes and for the records of the JSON that ResultDisplay
\* exports from its rows, after any sequence of edits of the rows.
C10_RolePathShape ==
    /\ \A i \in 1..Len(run.resultsMap) :
          WellFormedRolePath(run.resultsMap[i].rolePath, run.parsedPolicyData)
    /\ \A i \in 1..Len(generatedJson.items) :
          WellFormedRolePath(generatedJson.items[i].rolePath, policyData.doc)
    /\ \A i \in 1..Len(generateJSON(rows)) :
          WellFormedRolePath(generateJSON(rows)[i].rolePath, policyData.doc)

\* C10 witness: after edits, the row of /trade/order, whose generated record
\* names /trade.Action.save, exports /jk.Grid Access.edit, and the other row
\* has been deselected.
C10_Witness ==
    /\ Mounted
    /\ Len(rows) = 2
    /\ generatedJson.items[2].rolePath = <<rolePathString(pp_trade, sec_Action, kw_save)>>
    /\ \E i \in 1..2 :
          /\ rows[i].path = p_trade_order
          /\ rows[i].route = pp_jk
          /\ ~rows[i].baseInferred
    /\ generateJSON(rows)
          = <<[path |-> p_trade_order,
               rolePath |-> <<rolePathString(pp_jk, sec_GridAccess, edit)>>]>>

\* The effect has just built the rows from the published records.
RowsBuilt == rows = <<>> /\ rows' # <<>>

\* The published record a row was built from: paths are unique in the list.
itemOfRow(row) ==
    generatedJson.items[CHOOSE i \in 1..Len(generatedJson.items) :
                            generatedJson.items[i].path = row.path]

\* C21: when determineAccessType returns null, the loop gives the record an
\* empty rolePath, whatever the matched policy entry grants; it is the row
\* that ResultDisplay builds from a record with an empty rolePath that has
\* read set and create and edit unset.
C21_DefaultOnlyInDisplay ==
    [][/\ (pc = "loop" /\ run' # run /\ ~run'.last.skipped /\ run'.last.accessType = null)
            => /\ run'.last.rolePath = <<>>
               /\ run'.resultsMap[Len(run'.resultsMap)].rolePath = <<>>
       /\ RowsBuilt
            => \A k \in 1..Len(rows') :
                  itemOfRow(rows'[k]).rolePath = <<>>
                     => (rows'[k].read /\ ~rows'[k].create /\ ~rows'[k].edit)]_vars

\* C21 witness: GET /trade without a handler name has no access type and is
\* matched to /trade, whose Grid Access grants read; its record has an empty
\* rolePath and its row has read set.
C21_Witness ==
    /\ Mounted
    /\ run.last.accessType = null
    /\ run.last.bestPolicyMatch = pp_trade
    /\ truthyAt(entryOf(run.parsedPolicyData, pp_trade).gridAccess, read)
    /\ generatedJson.items = <<[path |-> p_trade, rolePath |-> <<>>,
                                methodType |-> GET, javaMethodName |-> <<>>]>>
    /\ Len(rows) = 1
    /\ rows[1].path = p_trade
    /\ rows[1].read /\ ~rows[1].create /\ ~rows[1].edit

\* The number of permissions set on a row.
permissionsSet(row) ==
    (IF row.create THEN 1 ELSE 0) + (IF row.read THEN 1 ELSE 0) + (IF row.edit THEN 1 ELSE 0)

\* C22: every row of ResultDisplay has at most one of create, read and edit
\* set, in the rows the effect builds from the data and after any sequence of
\* permission, path, route and selection changes.
C22_AtMostOnePermission ==
    \A i \in 1..Len(rows) : permissionsSet(rows[i]) <= 1

\* C22 witness: the row of /trade/order was built with create set, from
\* /trade.Action.save; after edits of its path, route and permission it has
\* edit alone, and the other row has no permission set.
C22_Witness ==
    /\ Mounted
    /\ Len(rows) = 2
    /\ generatedJson.items[2].rolePath = <<rolePathString(pp_trade, sec_Action, kw_save)>>
    /\ \E i, j \in 1..2 :
          /\ i # j
          /\ rows[i].javaMethodName = h_saveBudgetLine
          /\ rows[i].path = p_trade
          /\ rows[i].route = pp_jk
          /\ rows[i].edit /\ ~rows[i].create /\ ~rows[i].read
          /\ permissionsSet(rows[j]) = 0
          /\ ~rows[j].selected

\* The row is as handleRouteChange leaves it: its base is not inferred from
\* its path, and its roleBase is derived from its route.
ExplicitRoute(row) ==
    ~row.baseInferred /\ row.roleBase = inferRoleBaseFromRoute(row.route)

\* The step is a handleRouteChange on row idx.
RouteChanged(idx) ==
    rows'[idx] = [rows[idx] EXCEPT !.route = rows'[idx].route,
                                   !.roleBase = inferRoleBaseFromRoute(rows'[idx].route),
                                   !.baseInferred = FALSE]

C28_ExportRoundTrip ==
    [][RowsBuilt
         => \A i \in 1..Len(generatedJson.items) :
               generatedJson.items[i].rolePath # <<>>
                  => \E j \in 1..Len(generateJSON(rows')) :
                        /\ generateJSON(rows')[j].path = generatedJson.items[i].path
                        /\ generateJSON(rows')[j].rolePath
                              = generatedJson.items[i].rolePath]_vars

\* The step is a handleSelectAll: every row gets the same selection.
SelectedAll ==
    \E checked \in BOOLEAN :
       /\ selectAll' = checked
       /\ rows' = [i \in 1..Len(rows) |-> [rows[i] EXCEPT !.selected = checked]]

\* The step leaves every row but row idx as it is, in its place.
OnlyRowChanged(idx) ==
    /\ Len(rows') = Len(rows)
    /\ \A j \in 1..Len(rows) : j # idx => rows'[j] = rows[j]

\* C30: handlePathChange, handleRouteChange, handlePermissionChange and
\* handleRowSelect on a row leave every other row unchanged and keep the
\* number and the order of the rows; a path change on a row whose
\* baseInferred is false changes nothing but the path of the row.
C30_RowHandlersLocal ==
    [][(rows # <<>> /\ rows' # rows /\ ~SelectedAll)
          => \E idx \in 1..Len(rows) :
                /\ OnlyRowChanged(idx)
                /\ (rows'[idx].path # rows[idx].path /\ ~rows[idx].baseInferred)
                      => rows'[idx] = [rows[idx] EXCEPT !.path = rows'[idx].path]]_vars

\* C30 witness: of two rows one has had its path, route, permission and
\* selection changed, and the other is as the effect built it.
C30_Witness ==
    /\ Mounted
    /\ Len(rows) = 2
    /\ \E i, j \in 1..2 :
          /\ i # j
          /\ rows[i].path = p_trade
          /\ rows[i].route = pp_jk
          /\ ~rows[i].baseInferred
          /\ rows[i].create /\ ~rows[i].read
          /\ ~rows[i].selected
          /\ rows[j] = rowOf(itemOfRow(rows[j]), rows[j].route)
          /\ rows[j].route = pp_trade
          /\ rows[j].read

(***************************************************************************)
(* Spec: the Index page (Index.tsx 47-640): the two uploads, Clear All and *)
(* processFiles from the click to its end. processFiles is suspended at    *)
(* each await (the text of the API file, the text of the policy file);     *)
(* the other handlers run while it is suspended. call holds the apiFile    *)
(* and policyFile the running processFiles has in its closure.             *)
(* ResultDisplay is rendered from the results but no row is edited here.   *)
(***************************************************************************)
\* API monitor files: one observation, two observations, an observation and
\* a null, an object without the xceler_api_monitor array, the text "null",
\* text that is not JSON.
f_short == File("object", <<e_xyz>>)

f_withNull == File("object", <<e_tradeDetails, e_null>>)

f_two == File("object", <<e_order, e_trade>>)

f_noArray == File("noArray", <<>>)

f_jsonNull == File("null", <<>>)

f_notJson == File("invalid", <<>>)

ApiFiles == {f_short, f_two, f_withNull, f_noArray, f_jsonNull, f_notJson}

\* Policy files: a policy document, text that is not JSON.
g_policy == File("object", doc_tradeFirst)

g_notJson == File("invalid", <<>>)

PolicyFiles == {g_policy, g_notJson}

\* Index.tsx 125-126: JSON.parse throws on text that is not JSON, and reading
\* apiData.xceler_api_monitor throws when apiData is null.
readingApiThrows(file) == file.json \in {"invalid", "null"}

\* Index.tsx 126: apiData.xceler_api_monitor || []
apiMonitorOf(file) == IF file.json = "object" THEN file.content ELSE <<>>

\* Index.tsx 138: JSON.parse throws on text that is not JSON.
readingPolicyThrows(file) == file.json = "invalid"

Reading == [phase |-> "reading", apiMonitor |-> <<>>]

InitIndex ==
    /\ IndexIdle
    /\ DisplayEmpty
    /\ call = [fn |-> "none"]
    /\ ret = Pending

\* Index.tsx 73-80. Without results ResultDisplay is unmounted and its
\* state is gone.
handleApiFileUpload ==
    /\ pc \in UiPoints
    /\ \E file \in ApiFiles : apiFile' = file
    /\ generatedJson' = NullJson
    /\ rows' = <<>>
    /\ selectAll' = FALSE
    /\ UNCHANGED <<policyFile, policyData, isProcessing, processingStats, pc, run, call, ret>>

\* Index.tsx 82-89.
handlePolicyFileUpload ==
    /\ pc \in UiPoints
    /\ \E file \in PolicyFiles : policyFile' = file
    /\ generatedJson' = NullJson
    /\ rows' = <<>>
    /\ selectAll' = FALSE
    /\ UNCHANGED <<apiFile, policyData, isProcessing, processingStats, pc, run, call, ret>>

\* Index.tsx 483-494; the button is disabled when there is nothing to clear
\* (Index.tsx 560).
clearAll ==
    /\ pc \in UiPoints
    /\ ~(~apiFile.present /\ ~policyFile.present /\ ~generatedJson.set)
    /\ apiFile' = NoFile
    /\ policyFile' = NoFile
    /\ generatedJson' = NullJson
    /\ policyData' = NullPolicy
    /\ rows' = <<>>
    /\ selectAll' = FALSE
    /\ UNCHANGED <<isProcessing, processingStats, pc, run, call, ret>>

\* Index.tsx 91-120: the click on the button (enabled by Index.tsx 548), up
\* to the await of the API file's text.
processFiles ==
    /\ pc = "idle"
    /\ apiFile.present
    /\ policyFile.present
    /\ ~isProcessing
    /\ isProcessing' = TRUE
    /\ processingStats' = NoStats
    /\ call' = [fn |-> "processFiles", apiFile |-> apiFile, policyFile |-> policyFile]
    /\ ret' = Pending
    /\ run' = Reading
    /\ pc' = "readApi"
    /\ UNCHANGED <<apiFile, policyFile, generatedJson, policyData, displayVars>>

\* Index.tsx 120-133: the API file is parsed, up to the await of the policy
\* file's text; a throw goes to the catch and the finally (Index.tsx 441-451).
readApiMonitor ==
    /\ pc = "readApi"
    /\ pc' = IF readingApiThrows(call.apiFile) THEN "idle" ELSE "readPolicy"
    /\ ret' = IF readingApiThrows(call.apiFile) THEN Thrown ELSE ret
    /\ isProcessing' = ~readingApiThrows(call.apiFile)
    /\ run' = IF readingApiThrows(call.apiFile) THEN run
              ELSE [run EXCEPT !.apiMonitor = apiMonitorOf(call.apiFile)]
    /\ processingStats' =
          IF readingApiThrows(call.apiFile) THEN processingStats
          ELSE [processingStats EXCEPT !.totalEntries = Len(apiMonitorOf(call.apiFile))]
    /\ UNCHANGED <<apiFile, policyFile, generatedJson, policyData, displayVars, call>>

\* Index.tsx 133-305: the policy file is parsed and kept as policyData, and
\* the loop is about to start. A ResultDisplay that shows earlier results
\* gets new policy routes and its effect rebuilds the rows.
readPolicy ==
    /\ pc = "readPolicy"
    /\ pc' = IF readingPolicyThrows(call.policyFile) THEN "idle" ELSE "loop"
    /\ ret' = IF readingPolicyThrows(call.policyFile) THEN Thrown ELSE ret
    /\ isProcessing' = ~readingPolicyThrows(call.policyFile)
    /\ policyData' = IF readingPolicyThrows(call.policyFile) THEN policyData
                     ELSE Policy(call.policyFile.content)
    /\ run' = IF readingPolicyThrows(call.policyFile) THEN run
              ELSE loopLocals(run.apiMonitor, call.policyFile.content)
    /\ rows' = IF ~readingPolicyThrows(call.policyFile) /\ Len(generatedJson.items) > 0
               THEN <<>> ELSE rows
    /\ UNCHANGED <<apiFile, policyFile, generatedJson, processingStats, selectAll, call>>

Next ==
    \/ handleApiFileUpload
    \/ handlePolicyFileUpload
    \/ clearAll
    \/ processFiles
    \/ readApiMonitor
    \/ readPolicy
    \/ LoopStep
    \/ LoopThrows
    \/ Finish

Spec == InitIndex /\ [][Next]_vars

\* The input of the running processFiles is malformed: the API document is
\* not valid JSON or has no top-level observation array, or the policy
\* document is not valid JSON.
MalformedInput ==
    \/ call.apiFile.json # "object"
    \/ call.policyFile.json # "object"

\* C19: a run whose input is malformed ends in the error outcome: the failure
\* is reported, no result list is published and generatedJson is left as it
\* was.
C19_MalformedInputFails ==
    [][(pc # "idle" /\ pc' = "idle" /\ MalformedInput)
       => (ret' = Thrown /\ generatedJson' = generatedJson)]_vars

\* The result list of a whole run on the two files.
resultsOf(api, policy) ==
    loopFrom(loopLocals(apiMonitorOf(api), policy.content)).resultsMap

\* C26: whenever generatedJson is set, it is the result list of the selected
\* apiFile and policyFile: a run that was suspended while a file was replaced
\* or everything was cleared never publishes the results of the files it
\* started with.
C26_ResultsOfSelectedFiles ==
    generatedJson.set
       => /\ apiFile.present /\ ~readingApiThrows(apiFile)
          /\ policyFile.present /\ ~readingPolicyThrows(policyFile)
          /\ generatedJson.items = resultsOf(apiFile, policyFile)

(***************************************************************************)
(* SpecFair: Spec with the scheduling of the event loop. A suspended       *)
(* processFiles is resumed when the promise it awaits settles (the text of *)
(* a File, Index.tsx 120 and 133), and a handler that has started runs to  *)
(* its next await or to its end, so each step of processFiles that is      *)
(* enabled is eventually taken. Uploads and Clear All are the user's and   *)
(* need never happen. The weak fairness of LoopStep is written out, with   *)
(* the guard of LoopStep for ENABLED <<LoopStep>>_vars: every step of the  *)
(* loop changes run.                                                       *)
(***************************************************************************)
LoopStepEnabled ==
    /\ pc = "loop"
    /\ run.i <= Len(run.apiMonitor)
    /\ run.apiMonitor[run.i].isObject

SpecFair ==
    /\ Spec
    /\ WF_vars(readApiMonitor)
    /\ WF_vars(readPolicy)
    /\ ([]<>(~LoopStepEnabled) \/ []<><<LoopStep>>_vars)
    /\ WF_vars(LoopThrows)
    /\ WF_vars(Finish)

\* A step of the running processFiles.
RunStep == pc' # pc \/ run' # run

\* C27: a run of processFiles that has set isProcessing eventually sets it
\* back to false, whether it succeeds, fails on parsing or fails inside the
\* loop; the run writes generatedJson only when it publishes its results, so
\* a failed run leaves generatedJson as it was.
C27_ProcessingEnds ==
    /\ isProcessing ~> ~isProcessing
    /\ [][/\ (RunStep /\ generatedJson' # generatedJson)
               => (pc' = "idle" /\ ret' = Returned(generatedJson'.items))
          /\ (RunStep /\ ret' = Thrown)
               => (generatedJson' = generatedJson /\ ~isProcessing')]_vars

\* C27 witness: a run has failed inside the loop, on the null second element
\* of its API monitor, while the results of an earlier run were set;
\* processing has ended and the results are still set.
C27_Witness ==
    /\ pc = "idle"
    /\ ret = Thrown
    /\ ~isProcessing
    /\ call.apiFile = f_withNull
    /\ call.policyFile = g_policy
    /\ run.i = 2
    /\ Len(run.resultsMap) = 1
    /\ generatedJson.set

(***************************************************************************)
(* SpecYield: one run of processFiles over an API monitor long enough for  *)
(* the loop to yield (Index.tsx 410-412), from the start of the loop to    *)
(* the end of the run, with the handlers of the page and of ResultDisplay  *)
(* running at the yield points. ResultDisplay shows either nothing or the  *)
(* results of an earlier run on another file, which the page still has     *)
(* when that file was replaced while the earlier run was suspended.        *)
(***************************************************************************)
MaxYields == 1

DigitChars == <<"0","1","2","3","4","5","6","7","8","9">>

\* String(n) for a natural number.
RECURSIVE decimal(_)
decimal(n) ==
    IF n < 10 THEN <<DigitChars[n + 1]>>
    ELSE decimal(n \div 10) \o <<DigitChars[(n % 10) + 1]>>

a_trade_ == <<"/","t","r","a","d","e","/">>

\* The API monitor of the long file: distinct paths /trade/1, /trade/2, ...,
\* one more than the loop needs for MaxYields yields.
longMonitor ==
    [n \in 1..(YieldEvery * MaxYields + 1) |->
        Observation(null, a_trade_ \o decimal(n), GET, h_getTradeDetails)]

f_long == File("object", longMonitor)

\* The results of the earlier run, on f_short.
earlierResults == loopFrom(loopLocals(f_short.content, doc_tradeFirst)).resultsMap

InitYield ==
    /\ apiFile = f_long
    /\ policyFile = g_policy
    /\ policyData = Policy(doc_tradeFirst)
    /\ isProcessing = TRUE
    /\ processingStats = [NoStats EXCEPT !.totalEntries = Len(longMonitor)]
    /\ pc = "loop"
    /\ run = loopLocals(longMonitor, doc_tradeFirst)
    /\ call = [fn |-> "processFiles", apiFile |-> f_long, policyFile |-> g_policy]
    /\ ret = Pending
    /\ rows = <<>>
    /\ \E shown \in BOOLEAN :
          /\ generatedJson = IF shown THEN Json(earlierResults) ELSE NullJson
          /\ selectAll = shown

\* Lines 410-412: the timer of the yield fires and the loop goes on.
resumeLoop ==
    /\ pc = "yield"
    /\ pc' = "loop"
    /\ run' = afterYield(run)
    /\ UNCHANGED <<apiFile, policyFile, generatedJson, policyData, isProcessing,
                   processingStats, displayVars, call, ret>>

AtYield == pc = "yield"

yield_handleApiFileUpload == AtYield /\ handleApiFileUpload

yield_handlePolicyFileUpload == AtYield /\ handlePolicyFileUpload

yield_clearAll == AtYield /\ clearAll

yield_Effect == AtYield /\ Effect

yield_handleSelectAll == AtYield /\ handleSelectAll

yield_handleRowSelect == AtYield /\ handleRowSelect

yield_handlePathChange == AtYield /\ handlePathChange

yield_handleRouteChange == AtYield /\ handleRouteChange

yield_handlePermissionChange == AtYield /\ handlePermissionChange

NextYield ==
    \/ LoopStep
    \/ resumeLoop
    \/ Finish
    \/ yield_handleApiFileUpload
    \/ yield_handlePolicyFileUpload
    \/ yield_clearAll
    \/ yield_Effect
    \/ yield_handleSelectAll
    \/ yield_handleRowSelect
    \/ yield_handlePathChange
    \/ yield_handleRouteChange
    \/ yield_handlePermissionChange

SpecYield == InitYield /\ [][NextYield]_vars

\* The result list of the run of the call when the loop never yields.
WithoutYield ==
    loopFrom(loopLocals(apiMonitorOf(call.apiFile), call.policyFile.content)).resultsMap

\* C20: the yield does not change the output: whatever handlers ran at the
\* yield points, the list the run publishes has the records, in the order,
\* of the run without a yield.
C20_YieldKeepsOutput ==
    (pc = "idle" /\ call.fn = "processFiles")
       => /\ ret = Returned(WithoutYield)
          /\ generatedJson = Json(WithoutYield)

\* C20 witness: the run over the long monitor has yielded, the API file was
\* replaced and the rows were left unselected at a yield point, and the run
\* has published one record per observation.
C20_Witness ==
    /\ pc = "idle"
    /\ call.apiFile = f_long
    /\ apiFile = f_short
    /\ run.processedCount > YieldEvery
    /\ generatedJson.set
    /\ Len(generatedJson.items) = Len(longMonitor)
    /\ generatedJson.items[Len(longMonitor)].path = a_trade_ \o decimal(Len(longMonitor))

=============================================================================
